---- MODULE Spec2Model ----
(***************************************************************************)
(* The client-side command / state synchronisation layer of the VTTL       *)
(* scripts: VTTLClient (src/python/vttl_client.py) and the orchestration   *)
(* helpers of SceneController (src/python/scene_controller.py).            *)
(*                                                                         *)
(* One caller task issues commands; every established socket has a         *)
(* background receive task; the server pushes frames and may close a       *)
(* socket.  asyncio is cooperative, so a step of the model is the code     *)
(* between two suspension points that matter: a command whose only await   *)
(* is its send is one step, a command that sleeps before it reads the      *)
(* cache is split at the sleep.                                            *)
(*                                                                         *)
(* Numbers that are floats in the program are fixed-point here: a value v  *)
(* stands for v / Scale.                                                   *)
(***************************************************************************)
EXTENDS Integers, Sequences, FiniteSets, TLC

\* ------------------------------------------------------------- bounds
\* Sockets one run may establish (connect() calls that succeed).
MaxConnections == 2
\* Fixed-point resolution: the integer v stands for the float v / Scale.
Scale == 2
\* Conversions are exercised on coordinates -MaxCoord..MaxCoord and on grid
\* sizes 1..MaxGridSize (fixed point: 1/Scale .. MaxGridSize/Scale).
MaxCoord == 3
MaxGridSize == 4
\* take_screenshot calls one run may make.
MaxShots == 3
\* Records the observed log keeps.
MaxLog == 2

\* ------------------------------------------------------------- inputs
cam_main == <<"c", "a", "m", "_", "m", "a", "i", "n">>
prop_a == <<"p", "r", "o", "p", "_", "a">>
mini_b == <<"m", "i", "n", "i", "_", "b">>
Names == {cam_main, prop_a, mini_b}
\* name arguments of create / move / rotate / check_collisions.
CommandNames == {prop_a, mini_b}

cam_ == <<"c", "a", "m", "_">>
prop_ == <<"p", "r", "o", "p", "_">>
\* exclude_prefixes arguments of clear_scene (None is the empty list).
ExcludeLists == {{}, {cam_}, {prop_, <<"m">>}}

\* World positions [x, y, z] and grid positions, both in fixed point.
Origin == <<0, 0, 0>>
PosA == <<0, Scale \div 2, 0>>
PosB == <<2 * Scale, Scale \div 2, Scale>>
WorldPositions == {PosA, PosB}
\* position arguments of the commands.
InputPositions == {PosB}
GridPos(x, y, z) == [x |-> x, y |-> y, z |-> z]
GridPositions == {GridPos(2, Scale \div 2, -1), GridPos(-3, 0, 4)}
\* None as a value (a result, a missing message type).
None == "None"
\* An optional argument: <<>> when it is not given (None), <<v>> when it is v.
NotGiven == <<>>
Given(v) == <<v>>
IsGiven(arg) == Len(arg) = 1
Optional(S) == {NotGiven} \cup {Given(v) : v \in S}
\* size arguments of setup_board.
GridSizes == {Scale, 2 * Scale}

\* Snapshot payloads the server pushes: the 'entities' mapping as the
\* sequence of its items in key order; NoEntities is a payload (and the
\* initial cache {}) without the 'entities' key.
Ent(n, p) == [name |-> n, position |-> p]
EmptyDict == [k \in {} |-> <<>>]
NoEntities == EmptyDict
WithEntities(items) == [entities |-> items]
Payloads ==
    { NoEntities,
      WithEntities(<<Ent(prop_a, PosB), Ent(cam_main, PosA)>>),
      WithEntities(<<Ent(cam_main, PosA), Ent(prop_a, PosB), Ent(mini_b, PosA)>>) }

\* Close codes a peer may close a socket with.
CloseCodes == {1000, 1006}

\* ------------------------------------------------------------- state
VARIABLES
    websocket,      \* VTTLClient.websocket: 0 is None, else the socket's number
    is_connected,   \* VTTLClient.is_connected
    game_state,     \* VTTLClient.game_state
    grid_size,      \* VTTLClient.grid_size (fixed point)
    status,         \* per socket: the socket and its receive task
    last_snapshot,  \* history: payload of the last snapshot a receive task handled
    board_size,     \* history: size argument of the last setup_board call, 0 if none
    pc,             \* where the caller task is
    call,           \* the command in progress (or the last one): name, arguments, locals
    wire,           \* frames the command in progress (or the last one) wrote to the socket
    result,         \* its outcome: pending, returned (value) or raised (error)
    connected,      \* SceneController.connected
    entities,       \* SceneController.entities: the registry, items in key order
    files,          \* the screenshot directory: content of each file, 0 if absent
    shots,          \* history: number of take_screenshot calls made
    captures,       \* get_screenshot requests the renderer has not served yet
    landed,         \* history: the captures written, in order
    listener_log    \* what the receive tasks logged at error level, when observed

client_vars == <<websocket, is_connected, game_state, grid_size, status, last_snapshot,
                 board_size>>
caller_vars == <<pc, call, wire, result>>
scene_vars == <<connected, entities>>
shot_vars == <<files, shots, captures, landed>>
vars == <<websocket, is_connected, game_state, grid_size, status, last_snapshot,
          board_size, pc, call, wire, result, connected, entities,
          files, shots, captures, landed,
          listener_log>>

Sockets == 1..MaxConnections
\* A socket is: not established; open with its receive task running
\* ("listening"); open with its receive task ended by an exception ("deaf");
\* closed, by disconnect() or by the peer ("closed").  A closed socket has no
\* running receive task: the task's iteration ends with the socket.
Statuses == {"none", "listening", "deaf", "closed"}
OpenStatuses == {"listening", "deaf"}
NumConnections == Cardinality({c \in Sockets : status[c] # "none"})

Pending == [kind |-> "pending", value |-> None]
Returned(v) == [kind |-> "returned", value |-> v]
Raised(e) == [kind |-> "raised", value |-> e]

\* ------------------------------------------------------------- helpers
StartsWith(name, prefix) ==
    /\ Len(prefix) <= Len(name)
    /\ SubSeq(name, 1, Len(prefix)) = prefix

\* game_state.get('entities', {}), as the sequence of its items.
Entities(gs) == IF "entities" \in DOMAIN gs THEN gs.entities ELSE <<>>
\* list(entities.keys())
Keys(items) == [i \in 1..Len(items) |-> items[i].name]
KeySet(items) == {items[i].name : i \in 1..Len(items)}

\* A delete_entity that does not look at the cache.
check_entity_exists_skipped(name) == TRUE
check_entity_exists(name) == name \in KeySet(Entities(game_state))

\* A conversion that assumes unit cells.
grid_to_world_unit(grid_pos) ==
    <<grid_pos.x * Scale, grid_pos.y, grid_pos.z * Scale>>
grid_to_world(grid_pos) ==
    <<grid_pos.x * grid_size, grid_pos.y, grid_pos.z * grid_size>>

\* _send_message: the frames on the wire after the call, and the error
\* raised ("none" when the frame was written).  websocket.send raises
\* ConnectionClosed on a socket that is no longer open.
Frame(action, data) == [action |-> action, data |-> data]
\* A send that drops the frame silently when the flag is down.
send_message_dropping(w, action, data) ==
    IF is_connected /\ status[websocket] \in OpenStatuses
    THEN [wire |-> Append(w, Frame(action, data)), error |-> "none"]
    ELSE [wire |-> w, error |-> IF is_connected THEN "ConnectionClosed" ELSE "none"]
send_message(w, action, data) ==
    IF ~is_connected
    THEN [wire |-> w, error |-> "RuntimeError"]
    ELSE IF status[websocket] \in OpenStatuses
         THEN [wire |-> Append(w, Frame(action, data)), error |-> "none"]
         ELSE [wire |-> w, error |-> "ConnectionClosed"]

\* A command whose body is "build the data, await _send_message, return v".
SendAndReturn(op, action, data, v) ==
    LET s == send_message(<<>>, action, data) IN
    /\ call' = op
    /\ wire' = s.wire
    /\ result' = IF s.error = "none" THEN Returned(v) ELSE Raised(s.error)
    /\ pc' = "idle"

\* No screenshot was ever requested: the directory is empty.
NoFiles == [latest |-> 0, previous |-> 0]
NoShots ==
    /\ files = NoFiles
    /\ shots = 0
    /\ captures = <<>>
    /\ landed = <<>>

\* The log of the receive tasks: nobody reads it unless a handler is
\* attached, and then it keeps the records in order.
Unobserved == [observed |-> FALSE, records |-> <<>>]
Observed == [observed |-> TRUE, records |-> <<>>]
\* cache_empty: whether the cache held no entity at the time (history).
LogRecord(c, frame, text) ==
    [socket |-> c, frame |-> frame, text |-> text,
     cache_empty |-> Entities(game_state) = <<>>]
logged(log, rec) ==
    IF log.observed THEN [log EXCEPT !.records = Append(@, rec)] ELSE log

Init ==
    /\ websocket = 0
    /\ is_connected = FALSE
    /\ game_state = NoEntities
    /\ grid_size = Scale
    /\ status = [c \in Sockets |-> "none"]
    /\ last_snapshot = NoEntities
    /\ board_size = 0
    /\ pc = "idle"
    /\ call = [op |-> "init"]
    /\ wire = <<>>
    /\ result = Returned(None)
    /\ connected = FALSE
    /\ entities = <<>>
    /\ NoShots
    /\ listener_log = Unobserved

\* A client with a handler attached to its logger, after connect().
InitLog ==
    /\ websocket = 1
    /\ is_connected = TRUE
    /\ game_state = NoEntities
    /\ grid_size = Scale
    /\ status = [c \in Sockets |-> IF c = 1 THEN "listening" ELSE "none"]
    /\ last_snapshot = NoEntities
    /\ board_size = 0
    /\ pc = "idle"
    /\ call = [op |-> "connect"]
    /\ wire = <<>>
    /\ result = Returned(None)
    /\ connected = FALSE
    /\ entities = <<>>
    /\ NoShots
    /\ listener_log = Observed

\* ------------------------------------------------------------- channel
\* A connect() that sets the flag before the socket is established.
connect_outcome_flag_first(established) ==
    IF established
    THEN [websocket |-> NumConnections + 1, is_connected |-> TRUE,
          task_created |-> TRUE, error |-> "none"]
    ELSE [websocket |-> websocket, is_connected |-> TRUE,
          task_created |-> FALSE, error |-> "OSError"]

\* VTTLClient.connect as a function of whether websockets.connect yields a
\* socket: the socket is stored, the flag set and a receive task created for
\* the new socket; or the error is logged and re-raised with nothing assigned.
connect_outcome(established) ==
    IF established
    THEN [websocket |-> NumConnections + 1, is_connected |-> TRUE,
          task_created |-> TRUE, error |-> "none"]
    ELSE [websocket |-> websocket, is_connected |-> is_connected,
          task_created |-> FALSE, error |-> "OSError"]

\* The sockets after a connect() with this outcome.
StatusAfterConnect(o) ==
    IF o.task_created THEN [status EXCEPT ![o.websocket] = "listening"] ELSE status

Connect ==
    \E established \in BOOLEAN :
        LET o == connect_outcome(established) IN
        /\ pc = "idle"
        /\ established => NumConnections < MaxConnections
        /\ call' = [op |-> "connect"]
        /\ wire' = <<>>
        /\ websocket' = o.websocket
        /\ is_connected' = o.is_connected
        /\ status' = StatusAfterConnect(o)
        /\ result' = IF o.error = "none" THEN Returned(None) ELSE Raised(o.error)
        /\ UNCHANGED <<game_state, grid_size, last_snapshot, board_size, pc, connected,
                       entities>>
        /\ UNCHANGED <<shot_vars, listener_log>>

\* VTTLClient.disconnect: nothing when websocket is None; else the current
\* socket is closed (its receive task's iteration then ends) and the flag
\* cleared.
Disconnect ==
    /\ pc = "idle"
    /\ call' = [op |-> "disconnect"]
    /\ wire' = <<>>
    /\ result' = Returned(None)
    /\ IF websocket = 0
       THEN UNCHANGED <<status, is_connected>>
       ELSE /\ status' = [status EXCEPT ![websocket] =
                            IF @ \in OpenStatuses THEN "closed" ELSE @]
            /\ is_connected' = FALSE
    /\ UNCHANGED <<websocket, game_state, grid_size, last_snapshot, board_size, pc,
                   connected, entities>>
    /\ UNCHANGED <<shot_vars, listener_log>>

\* Frames the server sends: snapshots of both types, a snapshot without
\* 'data', an error with and without 'message', a frame of another type, a
\* JSON object without 'type', and a frame that is not JSON.
SnapshotTypes == {"game_state", "game_state_update"}
InboundFrames ==
    {[type |-> "game_state", data |-> p] : p \in Payloads}
    \cup {[type |-> "game_state_update", data |-> WithEntities(<<Ent(cam_main, PosA)>>)],
          [type |-> "game_state"],
          [type |-> "error", message |-> "boom"],
          [type |-> "error"],
          [type |-> "ack"],
          [other |-> "x"],
          [raw |-> "not json"]}

\* json.loads(message) raises on a frame that is not JSON.
Decodes(frame) == "raw" \notin DOMAIN frame
\* data.get('type')
MsgType(frame) == IF "type" \in DOMAIN frame THEN frame.type ELSE None
IsSnapshot(frame) == Decodes(frame) /\ MsgType(frame) \in SnapshotTypes

\* Whether decoding or handling the frame raises: json.loads, data['data'],
\* data['message'].
HandlingRaisesOnErrors(frame) ==
    \/ ~Decodes(frame)
    \/ MsgType(frame) \in SnapshotTypes /\ "data" \notin DOMAIN frame
    \/ MsgType(frame) = "error"
HandlingRaises(frame) ==
    \/ ~Decodes(frame)
    \/ MsgType(frame) \in SnapshotTypes /\ "data" \notin DOMAIN frame
    \/ MsgType(frame) = "error" /\ "message" \notin DOMAIN frame

\* A handler that merges a snapshot into the cache: entries of the old cache
\* that the payload does not name survive.
handle_message_merging(gs, frame) ==
    IF MsgType(frame) \in SnapshotTypes
    THEN WithEntities(SelectSeq(Entities(gs),
                                LAMBDA e : e.name \notin KeySet(Entities(frame.data)))
                      \o Entities(frame.data))
    ELSE gs

\* _handle_message: the cache after a frame that was handled without raising.
handle_message(gs, frame) ==
    IF MsgType(frame) \in SnapshotTypes THEN frame.data ELSE gs

\* A receive task that clears the flag whatever ended it.
ListenerReceiveFlagging ==
    \E c \in Sockets, frame \in InboundFrames :
        /\ status[c] = "listening"
        /\ (listener_log.observed /\ (HandlingRaises(frame) \/ MsgType(frame) = "error"))
              => Len(listener_log.records) < MaxLog
        /\ IF HandlingRaises(frame)
           THEN /\ status' = [status EXCEPT ![c] = "deaf"]
                /\ listener_log' = logged(listener_log,
                                          LogRecord(c, frame, "Error listening for messages"))
                /\ is_connected' = FALSE
                /\ UNCHANGED <<game_state, last_snapshot>>
           ELSE /\ game_state' = handle_message(game_state, frame)
                /\ last_snapshot' = IF IsSnapshot(frame) THEN frame.data ELSE last_snapshot
                /\ listener_log' = IF MsgType(frame) = "error"
                                   THEN logged(listener_log, LogRecord(c, frame, "Server error"))
                                   ELSE listener_log
                /\ UNCHANGED <<status, is_connected>>
        /\ UNCHANGED <<websocket, grid_size, board_size, caller_vars,
                       scene_vars>>
        /\ UNCHANGED shot_vars
\* One turn of a receive task's loop: a frame arrives on socket c and is
\* decoded and handled.  An exception other than ConnectionClosed ends the
\* task (it is logged), the socket stays open and the flag is not touched.
ListenerReceive ==
    \E c \in Sockets, frame \in InboundFrames :
        /\ status[c] = "listening"
        /\ (listener_log.observed /\ (HandlingRaises(frame) \/ MsgType(frame) = "error"))
              => Len(listener_log.records) < MaxLog
        /\ IF HandlingRaises(frame)
           THEN /\ status' = [status EXCEPT ![c] = "deaf"]
                /\ listener_log' = logged(listener_log,
                                          LogRecord(c, frame, "Error listening for messages"))
                /\ UNCHANGED <<game_state, last_snapshot>>
           ELSE /\ game_state' = handle_message(game_state, frame)
                /\ last_snapshot' = IF IsSnapshot(frame) THEN frame.data ELSE last_snapshot
                /\ listener_log' = IF MsgType(frame) = "error"
                                   THEN logged(listener_log, LogRecord(c, frame, "Server error"))
                                   ELSE listener_log
                /\ UNCHANGED status
        /\ UNCHANGED <<websocket, is_connected, grid_size, board_size, caller_vars,
                       scene_vars>>
        /\ UNCHANGED shot_vars

\* The websockets iterator: `async for` ends normally when the socket was
\* closed with code 1000 or 1001 (ConnectionClosedOK is swallowed by the
\* iterator) and raises ConnectionClosedError for any other code.
IteratorRaises(code) == code \notin {1000, 1001}

\* The flag after a receive task saw its socket closed by the peer: the
\* `except ConnectionClosed` branch runs only when the iterator raised.
FlagAfterPeerClose(code) == IF IteratorRaises(code) THEN FALSE ELSE is_connected

\* The peer closes socket c.  A receive task that is iterating ends; a task
\* that had already ended sees nothing.
PeerClose ==
    \E c \in Sockets, code \in CloseCodes :
        /\ status[c] \in OpenStatuses
        /\ status' = [status EXCEPT ![c] = "closed"]
        /\ is_connected' = IF status[c] = "listening"
                           THEN FlagAfterPeerClose(code)
                           ELSE is_connected
        /\ UNCHANGED <<websocket, game_state, grid_size, last_snapshot, board_size,
                       caller_vars, scene_vars>>
        /\ UNCHANGED <<shot_vars, listener_log>>

\* ------------------------------------------------------------- commands
\* A create_entity whose default position is not the origin.
create_position_lifted(grid_pos, position) ==
    IF IsGiven(grid_pos) THEN grid_to_world(grid_pos[1])
    ELSE IF ~IsGiven(position) THEN PosA
    ELSE position[1]

\* create_entity's position: the grid position converted when one is given
\* (a GridPosition is always truthy), else the world position, else [0, 0, 0].
create_position(grid_pos, position) ==
    IF IsGiven(grid_pos) THEN grid_to_world(grid_pos[1])
    ELSE IF ~IsGiven(position) THEN Origin
    ELSE position[1]

CreateEntity ==
    \E name \in CommandNames, grid_pos \in Optional(GridPositions),
       position \in Optional(InputPositions) :
        /\ pc = "idle"
        /\ SendAndReturn([op |-> "create_entity", name |-> name, grid_pos |-> grid_pos,
                          position |-> position],
                         "create_entity",
                         [name |-> name, template |-> "cube",
                          position |-> create_position(grid_pos, position)],
                         TRUE)
        /\ UNCHANGED <<client_vars, scene_vars>>
        /\ UNCHANGED <<shot_vars, listener_log>>

\* A move_entity that defaults to the origin, as create_entity does.
move_target_defaulting(grid_pos, position) ==
    IF IsGiven(grid_pos) THEN Given(grid_to_world(grid_pos[1]))
    ELSE IF ~IsGiven(position) THEN Given(Origin)
    ELSE position

\* move_entity's target: <<>> stands for the ValueError raised when neither
\* a grid position nor a world position is given.
move_target(grid_pos, position) ==
    IF IsGiven(grid_pos) THEN Given(grid_to_world(grid_pos[1]))
    ELSE IF ~IsGiven(position) THEN NotGiven
    ELSE position

MoveEntity ==
    \E name \in {prop_a}, grid_pos \in Optional(GridPositions),
       position \in Optional(InputPositions), animate \in BOOLEAN :
        LET op == [op |-> "move_entity", name |-> name, grid_pos |-> grid_pos,
                   position |-> position, animate |-> animate]
            to == move_target(grid_pos, position)
        IN
        /\ pc = "idle"
        /\ IF ~IsGiven(to)
           THEN /\ call' = op
                /\ wire' = <<>>
                /\ result' = Raised("ValueError")
                /\ pc' = "idle"
           ELSE SendAndReturn(op, "move_entity",
                              [name |-> name, to |-> to[1], animate |-> animate], TRUE)
        /\ UNCHANGED <<client_vars, scene_vars>>
        /\ UNCHANGED <<shot_vars, listener_log>>

Rotations == {<<0, 90 * Scale, 0>>}

RotateEntity ==
    \E name \in {mini_b}, rotation \in Rotations, animate \in BOOLEAN :
        /\ pc = "idle"
        /\ SendAndReturn([op |-> "rotate_entity", name |-> name, rotation |-> rotation,
                          animate |-> animate],
                         "rotate_entity",
                         [name |-> name, to |-> rotation, animate |-> animate], TRUE)
        /\ UNCHANGED <<client_vars, scene_vars>>
        /\ UNCHANGED <<shot_vars, listener_log>>

\* check_collisions sends the probe, sleeps, and returns a fixed structure.
\* A result that reports an overlap.
CollisionResultOccupied == [collisions |-> <<cam_main>>, onTable |-> TRUE]
CollisionResult == [collisions |-> <<>>, onTable |-> TRUE]

CheckCollisions ==
    \E name \in {prop_a}, position \in WorldPositions :
        /\ pc = "idle"
        /\ SendAndReturn([op |-> "check_collisions", name |-> name, position |-> position],
                         "check_collisions",
                         [name |-> name, position |-> position], CollisionResult)
        /\ UNCHANGED <<client_vars, scene_vars>>
        /\ UNCHANGED <<shot_vars, listener_log>>

\* delete_entity: False without a send when the name is not in the cache.
DeleteEntity ==
    \E name \in Names :
        LET op == [op |-> "delete_entity", name |-> name] IN
        /\ pc = "idle"
        /\ IF ~check_entity_exists(name)
           THEN /\ call' = op
                /\ wire' = <<>>
                /\ result' = Returned(FALSE)
                /\ pc' = "idle"
           ELSE SendAndReturn(op, "delete_entity", [name |-> name], TRUE)
        /\ UNCHANGED <<client_vars, scene_vars>>
        /\ UNCHANGED <<shot_vars, listener_log>>

\* setup_board assigns grid_size, then sends.
\* A setup_board that assigns grid_size once the message is out.
SetupBoardSendFirst ==
    \E size \in GridSizes :
        /\ pc = "idle"
        /\ grid_size' = IF send_message(<<>>, "setup_board", EmptyDict).error = "none"
                          THEN size ELSE grid_size
        /\ board_size' = size
        /\ SendAndReturn([op |-> "setup_board", size |-> size],
                         "setup_board",
                         [type |-> "square", size |-> size, width |-> 10, height |-> 10,
                          createTiles |-> TRUE],
                         TRUE)
        /\ UNCHANGED <<websocket, is_connected, game_state, status, last_snapshot,
                       scene_vars>>
        /\ UNCHANGED <<shot_vars, listener_log>>
SetupBoard ==
    \E size \in GridSizes :
        /\ pc = "idle"
        /\ grid_size' = size
        /\ board_size' = size
        /\ SendAndReturn([op |-> "setup_board", size |-> size],
                         "setup_board",
                         [type |-> "square", size |-> size, width |-> 10, height |-> 10,
                          createTiles |-> TRUE],
                         TRUE)
        /\ UNCHANGED <<websocket, is_connected, game_state, status, last_snapshot,
                       scene_vars>>
        /\ UNCHANGED <<shot_vars, listener_log>>

\* set_camera_angle sends, sleeps, returns True.
SetCameraAngle ==
    /\ pc = "idle"
    /\ SendAndReturn([op |-> "set_camera_angle"], "set_camera",
                     [angleX |-> 30, angleY |-> 0, distance |-> 20], TRUE)
    /\ UNCHANGED <<client_vars, scene_vars>>
    /\ UNCHANGED <<shot_vars, listener_log>>

\* ------------------------------------------------------------- screenshots
LatestPath == "latest_screenshot.png"

\* A take_screenshot that asks for the capture twice.
TakeScreenshotTwice ==
    LET s == send_message(<<>>, "get_screenshot", EmptyDict) IN
    /\ pc = "idle"
    /\ shots < MaxShots
    /\ shots' = shots + 1
    /\ call' = [op |-> "take_screenshot", nth |-> shots + 1]
    /\ wire' = s.wire \o s.wire
    /\ IF s.error = "none"
       THEN /\ pc' = "take_screenshot_sleep"
            /\ result' = Pending
            /\ captures' = captures \o <<shots + 1, shots + 1>>
       ELSE /\ pc' = "idle"
            /\ result' = Raised(s.error)
            /\ UNCHANGED captures
    /\ UNCHANGED <<client_vars, scene_vars, files, landed, listener_log>>
\* take_screenshot up to its sleep: the request is sent (an error
\* propagates) and reaches the renderer.
TakeScreenshot ==
    LET s == send_message(<<>>, "get_screenshot", EmptyDict) IN
    /\ pc = "idle"
    /\ shots < MaxShots
    /\ shots' = shots + 1
    /\ call' = [op |-> "take_screenshot", nth |-> shots + 1]
    /\ wire' = s.wire
    /\ IF s.error = "none"
       THEN /\ pc' = "take_screenshot_sleep"
            /\ result' = Pending
            /\ captures' = Append(captures, shots + 1)
       ELSE /\ pc' = "idle"
            /\ result' = Raised(s.error)
            /\ UNCHANGED captures
    /\ UNCHANGED <<client_vars, scene_vars, files, landed, listener_log>>

\* take_screenshot after the sleep: the fixed path when the file is there,
\* None when it is not.
TakeScreenshotReturn ==
    /\ pc = "take_screenshot_sleep"
    /\ pc' = "idle"
    /\ result' = Returned(IF files.latest # 0 THEN LatestPath ELSE None)
    /\ UNCHANGED <<client_vars, call, wire, scene_vars, shot_vars, listener_log>>

\* The renderer serves a capture request: the file at the fixed path, if
\* there is one, is renamed to the backup path, then the new capture is
\* written to the fixed path.
ServerCapture ==
    /\ captures # <<>>
    /\ files' = [latest |-> Head(captures),
                 previous |-> IF files.latest # 0 THEN files.latest ELSE files.previous]
    /\ captures' = Tail(captures)
    /\ landed' = Append(landed, Head(captures))
    /\ UNCHANGED <<client_vars, caller_vars, scene_vars, shots, listener_log>>

\* SceneController.take_screenshot up to the sleep of the client's call: an
\* exception of the client is caught and False is returned.
SceneTakeScreenshot ==
    LET s == send_message(<<>>, "get_screenshot", EmptyDict) IN
    /\ pc = "idle"
    /\ shots < MaxShots
    /\ shots' = shots + 1
    /\ call' = [op |-> "scene_take_screenshot", nth |-> shots + 1, path |-> None]
    /\ wire' = s.wire
    /\ IF s.error = "none"
       THEN /\ pc' = "scene_take_screenshot_sleep"
            /\ result' = Pending
            /\ captures' = Append(captures, shots + 1)
       ELSE /\ pc' = "idle"
            /\ result' = Returned(FALSE)
            /\ UNCHANGED captures
    /\ UNCHANGED <<client_vars, scene_vars, files, landed, listener_log>>

\* SceneController.take_screenshot after the sleep: the path the client
\* returns is dropped and True is returned.
SceneTakeScreenshotReturn ==
    LET path == IF files.latest # 0 THEN LatestPath ELSE None IN
    /\ pc = "scene_take_screenshot_sleep"
    /\ pc' = "idle"
    /\ call' = [call EXCEPT !.path = path]
    /\ result' = Returned(TRUE)
    /\ UNCHANGED <<client_vars, wire, scene_vars, shot_vars, listener_log>>

\* get_game_state: the request is sent (an error propagates), the caller
\* sleeps, and the cache as it stands then is returned.  call.before is the
\* cache at the time of the call (history).
GetGameStateSend ==
    LET s == send_message(<<>>, "get_game_state", EmptyDict) IN
    /\ pc = "idle"
    /\ call' = [op |-> "get_game_state", before |-> game_state]
    /\ wire' = s.wire
    /\ IF s.error = "none"
       THEN pc' = "get_game_state_sleep" /\ result' = Pending
       ELSE pc' = "idle" /\ result' = Raised(s.error)
    /\ UNCHANGED <<client_vars, scene_vars>>
    /\ UNCHANGED <<shot_vars, listener_log>>

\* A get_game_state that returns the cache it saw before the pause.
GetGameStateReturnEarly ==
    /\ pc = "get_game_state_sleep"
    /\ pc' = "idle"
    /\ result' = Returned(call.before)
    /\ UNCHANGED <<client_vars, call, wire, scene_vars>>
    /\ UNCHANGED <<shot_vars, listener_log>>
\* get_game_state after the pause.
GetGameStateReturn ==
    /\ pc = "get_game_state_sleep"
    /\ pc' = "idle"
    /\ result' = Returned(game_state)
    /\ UNCHANGED <<client_vars, call, wire, scene_vars>>
    /\ UNCHANGED <<shot_vars, listener_log>>

\* ------------------------------------------------------------- clear_scene
\* An exclusion by exact name instead of by prefix.
ShouldExcludeExact(name, exclude_prefixes) == name \in exclude_prefixes

\* any(name.startswith(prefix) for prefix in exclude_prefixes)
ShouldExclude(name, exclude_prefixes) ==
    \E prefix \in exclude_prefixes : StartsWith(name, prefix)

\* clear_scene first calls get_game_state (an error of its send propagates)
\* and sleeps.
ClearSceneStart ==
    \E exclude_prefixes \in ExcludeLists :
        LET s == send_message(<<>>, "get_game_state", EmptyDict) IN
        /\ pc = "idle"
        /\ call' = [op |-> "clear_scene", exclude_prefixes |-> exclude_prefixes,
                    names |-> <<>>, idx |-> 0, deleted_count |-> 0, absent |-> <<>>]
        /\ wire' = s.wire
        /\ IF s.error = "none"
           THEN pc' = "clear_scene_sleep" /\ result' = Pending
           ELSE pc' = "idle" /\ result' = Raised(s.error)
        /\ UNCHANGED <<client_vars, scene_vars>>
        /\ UNCHANGED <<shot_vars, listener_log>>

\* After the sleeps the names to visit are taken from the cache as it
\* stands: list(entities.keys()).
ClearSceneCapture ==
    /\ pc = "clear_scene_sleep"
    /\ pc' = "clear_scene_loop"
    /\ call' = [call EXCEPT !.names = Keys(Entities(game_state)), !.idx = 1]
    /\ UNCHANGED <<client_vars, wire, result, scene_vars>>
    /\ UNCHANGED <<shot_vars, listener_log>>

\* One turn of the loop.  delete_entity reads the cache as it stands now;
\* an exception of its send is caught and logged, and the name is then not
\* counted.  The loop sleeps after each delete_entity that returned.
\* call.absent keeps the names that were not in the cache at their turn
\* (history).
ClearSceneStep ==
    /\ pc = "clear_scene_loop"
    /\ call.idx <= Len(call.names)
    /\ LET name == call.names[call.idx]
           s == send_message(wire, "delete_entity", [name |-> name])
           now_absent == IF name \in KeySet(Entities(game_state))
                         THEN call.absent ELSE Append(call.absent, name)
       IN
       IF ShouldExclude(name, call.exclude_prefixes)
       THEN /\ call' = [call EXCEPT !.idx = @ + 1]
            /\ UNCHANGED wire
       ELSE IF ~check_entity_exists(name)
       THEN /\ call' = [call EXCEPT !.idx = @ + 1, !.deleted_count = @ + 1,
                                    !.absent = now_absent]
            /\ UNCHANGED wire
       ELSE /\ wire' = s.wire
            /\ call' = [call EXCEPT !.idx = @ + 1,
                                    !.deleted_count = IF s.error = "none" THEN @ + 1 ELSE @,
                                    !.absent = now_absent]
    /\ UNCHANGED <<client_vars, pc, result, scene_vars>>
    /\ UNCHANGED <<shot_vars, listener_log>>

ClearSceneReturn ==
    /\ pc = "clear_scene_loop"
    /\ call.idx > Len(call.names)
    /\ pc' = "idle"
    /\ result' = Returned(TRUE)
    /\ UNCHANGED <<client_vars, call, wire, scene_vars>>
    /\ UNCHANGED <<shot_vars, listener_log>>

\* ------------------------------------------------------------- coordinates
\* A rounding that truncates toward minus infinity.
RoundDown(p, q) == p \div q
\* Python's round(p / q) for q > 0: to the nearest integer, ties to even.
RoundHalfEven(p, q) ==
    LET f == p \div q
        r == p % q
    IN  IF 2 * r < q THEN f
        ELSE IF 2 * r > q THEN f + 1
        ELSE IF f % 2 = 0 THEN f ELSE f + 1

\* A conversion that takes the axes in the wrong order.
world_to_grid_swapped(position) ==
    [x |-> RoundHalfEven(position[3], grid_size),
     z |-> RoundHalfEven(position[1], grid_size),
     y |-> position[2]]
world_to_grid(position) ==
    [x |-> RoundHalfEven(position[1], grid_size),
     z |-> RoundHalfEven(position[3], grid_size),
     y |-> position[2]]

ConversionInputs == {PosB, <<-3, 0, 5>>, <<1, Scale, 6>>}

WorldToGrid ==
    \E position \in ConversionInputs :
        /\ pc = "idle"
        /\ call' = [op |-> "world_to_grid", position |-> position]
        /\ wire' = <<>>
        /\ result' = Returned(world_to_grid(position))
        /\ UNCHANGED <<client_vars, pc, scene_vars>>
        /\ UNCHANGED <<shot_vars, listener_log>>

\* The conversions on their own: a client whose board was set up with any
\* positive cell size while it was not connected (setup_board stores the
\* size, then its send raises), and a caller that converts there and back.
CoordGridSizes == 1..MaxGridSize
Coords == (-MaxCoord)..MaxCoord
Heights == {0, Scale \div 2}
CoordGridPositions == {GridPos(x, y, z) : x \in Coords, y \in Heights, z \in Coords}
CoordWorldPositions == {<<x, y, z>> : x \in Coords, y \in Heights, z \in Coords}

InitCoords ==
    /\ websocket = 0
    /\ is_connected = FALSE
    /\ game_state = NoEntities
    /\ grid_size \in CoordGridSizes
    /\ board_size = grid_size
    /\ status = [c \in Sockets |-> "none"]
    /\ last_snapshot = NoEntities
    /\ pc = "idle"
    /\ call = [op |-> "setup_board", size |-> grid_size]
    /\ wire = <<>>
    /\ result = Raised("RuntimeError")
    /\ connected = FALSE
    /\ entities = <<>>
    /\ NoShots
    /\ listener_log = Unobserved

\* world_to_grid(grid_to_world(grid_pos))
GridRoundTrip ==
    \E grid_pos \in CoordGridPositions :
        /\ pc = "idle"
        /\ call' = [op |-> "grid_round_trip", grid_pos |-> grid_pos,
                    world |-> grid_to_world(grid_pos)]
        /\ wire' = <<>>
        /\ result' = Returned(world_to_grid(grid_to_world(grid_pos)))
        /\ UNCHANGED <<client_vars, pc, scene_vars>>
        /\ UNCHANGED <<shot_vars, listener_log>>

\* grid_to_world(world_to_grid(position))
WorldRoundTrip ==
    \E position \in CoordWorldPositions :
        /\ pc = "idle"
        /\ call' = [op |-> "world_round_trip", position |-> position,
                    grid |-> world_to_grid(position)]
        /\ wire' = <<>>
        /\ result' = Returned(grid_to_world(world_to_grid(position)))
        /\ UNCHANGED <<client_vars, pc, scene_vars>>
        /\ UNCHANGED <<shot_vars, listener_log>>

\* ------------------------------------------------------------- scene controller
\* SceneController.connect: client.connect() (an error propagates before
\* anything else happens), connected = True, then _sync_entities, whose
\* get_game_state sends on the new socket and sleeps.
SceneConnect ==
    \E established \in BOOLEAN :
        LET o == connect_outcome(established) IN
        /\ pc = "idle"
        /\ established => NumConnections < MaxConnections
        /\ call' = [op |-> "scene_connect"]
        /\ websocket' = o.websocket
        /\ is_connected' = o.is_connected
        /\ status' = StatusAfterConnect(o)
        /\ IF o.error = "none"
           THEN /\ connected' = TRUE
                /\ wire' = <<Frame("get_game_state", EmptyDict)>>
                /\ result' = Pending
                /\ pc' = "scene_sync_sleep"
           ELSE /\ result' = Raised(o.error)
                /\ wire' = <<>>
                /\ UNCHANGED <<connected, pc>>
        /\ UNCHANGED <<game_state, grid_size, last_snapshot, board_size, entities>>
        /\ UNCHANGED <<shot_vars, listener_log>>

\* _sync_entities after the sleep: the registry is rebuilt from the cache.
SceneSyncReturn ==
    /\ pc = "scene_sync_sleep"
    /\ pc' = "idle"
    /\ entities' = Entities(game_state)
    /\ result' = Returned(None)
    /\ UNCHANGED <<client_vars, call, wire, connected>>
    /\ UNCHANGED <<shot_vars, listener_log>>

\* SceneController.disconnect: only when connected.
SceneDisconnect ==
    /\ pc = "idle"
    /\ call' = [op |-> "scene_disconnect"]
    /\ wire' = <<>>
    /\ result' = Returned(None)
    /\ IF connected
       THEN /\ status' = [status EXCEPT ![websocket] =
                            IF @ \in OpenStatuses THEN "closed" ELSE @]
            /\ is_connected' = FALSE
            /\ connected' = FALSE
       ELSE UNCHANGED <<status, is_connected, connected>>
    /\ UNCHANGED <<websocket, game_state, grid_size, last_snapshot, board_size, pc, entities>>
    /\ UNCHANGED <<shot_vars, listener_log>>

\* SceneController.check_collisions: the client's result, or the fixed
\* default when the client call raised.  The frames on the wire afterwards
\* and the value returned.
SceneCollisionDefault == [collisions |-> <<>>, onTable |-> TRUE]
scene_check_collisions(w, name, position) ==
    LET s == send_message(w, "check_collisions", [name |-> name, position |-> position])
    IN  [wire |-> s.wire,
         value |-> IF s.error = "none" THEN CollisionResult ELSE SceneCollisionDefault]

\* Position(*list): the coordinates, one by one.
Position(list) == [x |-> list[1], y |-> list[2], z |-> list[3]]
to_list(pos) == <<pos.x, pos.y, pos.z>>
\* preferred_position arguments: a list or a Position, either way <<x, y, z>>.
PreferredPositions == {[kind |-> k, at |-> p] : k \in {"list", "Position"}, p \in WorldPositions}
\* Radii are counted in halves: the spiral's [0.5, 1.0, 1.5, 2.0] is 1..4.
SpiralRadii == <<1, 2, 3, 4>>
SpiralAngles == [i \in 1..12 |-> 30 * (i - 1)]
\* search_radius arguments, in halves: the default 2.0, 1.0, and 0.2.
SearchRadii == {4, 2, 0}
\* A probed position, kept symbolic: base + radius * (cos angle, 0, sin angle);
\* radius 0 is the base itself.
Offset(base, radius, angle) == [base |-> base, radius |-> radius, angle |-> angle]
\* The positions find_safe_position probes after the preferred one, in order.
RECURSIVE SpiralFrom(_, _, _)
SpiralFrom(pos, search_radius, i) ==
    IF i > Len(SpiralRadii) \/ SpiralRadii[i] > search_radius
    THEN <<>>
    ELSE [j \in 1..12 |-> Offset(to_list(pos), SpiralRadii[i], SpiralAngles[j])]
         \o SpiralFrom(pos, search_radius, i + 1)
\* A test that looks at overlaps only.
IsSafeOverlapOnly(collisions) == collisions.collisions = <<>>
IsSafe(collisions) == collisions.collisions = <<>> /\ collisions.onTable

\* find_safe_position up to its first probe.
FindSafeStart ==
    \E name \in {prop_a}, preferred \in PreferredPositions, search_radius \in SearchRadii :
        /\ pc = "idle"
        /\ pc' = "find_safe_probe"
        /\ call' = [op |-> "find_safe_position", name |-> name, preferred |-> preferred,
                    search_radius |-> search_radius, idx |-> 0, probes |-> 0,
                    probed |-> <<>>]
        /\ wire' = <<>>
        /\ result' = Pending
        /\ UNCHANGED <<client_vars, scene_vars>>
        /\ UNCHANGED <<shot_vars, listener_log>>

\* One probe: idx 0 is the preferred position, idx k > 0 the k-th position
\* of the spiral.  A safe probe returns its position (Given); after the last
\* unsafe probe None is returned (NotGiven).
FindSafeProbe ==
    LET pos == Position(call.preferred.at)
        spiral == SpiralFrom(pos, call.search_radius, 1)
        target == IF call.idx = 0 THEN Offset(to_list(pos), 0, 0) ELSE spiral[call.idx]
        c == scene_check_collisions(wire, call.name, target)
        seen == Append(call.probed, [target |-> target, answer |-> c.value])
    IN  /\ pc = "find_safe_probe"
        /\ wire' = c.wire
        /\ IF IsSafe(c.value)
           THEN /\ result' = Returned(Given(target))
                /\ pc' = "idle"
                /\ call' = [call EXCEPT !.probed = seen, !.probes = @ + 1]
           ELSE IF call.idx = Len(spiral)
           THEN /\ result' = Returned(NotGiven)
                /\ pc' = "idle"
                /\ call' = [call EXCEPT !.probed = seen, !.probes = @ + 1]
           ELSE /\ call' = [call EXCEPT !.probed = seen, !.probes = @ + 1, !.idx = @ + 1]
                /\ UNCHANGED <<pc, result>>
        /\ UNCHANGED <<client_vars, scene_vars>>
        /\ UNCHANGED <<shot_vars, listener_log>>

\* What the probes of one call come back with once the renderer answers:
\* the first clear_from - 1 positions in probing order overlap an entity, and
\* positions away from the preferred one at an angle in off_table are off
\* the table.
AllAngles == {30 * k : k \in 0..11}
Layouts ==
    {[clear_from |-> m, off_table |-> a] :
        m \in {1, 2, 26, 50}, a \in {{}, AllAngles, AllAngles \ {330}}}
ProbeIndex(target) ==
    IF target.radius = 0 THEN 1 ELSE 2 + 12 * (target.radius - 1) + target.angle \div 30
ProbeAnswer(layout, target) ==
    [collisions |-> IF ProbeIndex(target) < layout.clear_from THEN <<cam_main>> ELSE <<>>,
     onTable |-> target.radius = 0 \/ target.angle \notin layout.off_table]
\* One probe of find_safe_position whose answer is the renderer's; the
\* scene does not change during the call.
FindSafeProbeAnswered ==
    \E layout \in Layouts :
    LET pos == Position(call.preferred.at)
        spiral == SpiralFrom(pos, call.search_radius, 1)
        target == IF call.idx = 0 THEN Offset(to_list(pos), 0, 0) ELSE spiral[call.idx]
        c == scene_check_collisions(wire, call.name, target)
        answer == ProbeAnswer(layout, target)
        seen == Append(call.probed, [target |-> target, answer |-> answer])
    IN  /\ pc = "find_safe_probe"
        /\ \A k \in 1..Len(call.probed) :
              call.probed[k].answer = ProbeAnswer(layout, call.probed[k].target)
        /\ wire' = c.wire
        /\ IF IsSafe(answer)
           THEN /\ result' = Returned(Given(target))
                /\ pc' = "idle"
                /\ call' = [call EXCEPT !.probed = seen, !.probes = @ + 1]
           ELSE IF call.idx = Len(spiral)
           THEN /\ result' = Returned(NotGiven)
                /\ pc' = "idle"
                /\ call' = [call EXCEPT !.probed = seen, !.probes = @ + 1]
           ELSE /\ call' = [call EXCEPT !.probed = seen, !.probes = @ + 1, !.idx = @ + 1]
                /\ UNCHANGED <<pc, result>>
        /\ UNCHANGED <<client_vars, scene_vars>>
        /\ UNCHANGED <<shot_vars, listener_log>>

\* ------------------------------------------------------------- arrangements
prop_b == <<"p", "r", "o", "p", "_", "b">>
mini_c == <<"m", "i", "n", "i", "_", "c">>
\* A scene of four entities, synchronised into the registry by connect().
FourEntities ==
    <<Ent(cam_main, PosA), Ent(mini_b, PosA), Ent(prop_a, PosB), Ent(prop_b, PosB)>>
\* entity_names arguments; mini_c is in no registry.
EntityLists ==
    { <<>>, <<prop_a>>, <<mini_b, prop_a>>, <<prop_b, mini_c, prop_a>>,
      <<prop_a, prop_b, mini_b, cam_main>> }
\* radius arguments (fixed point): 4.0.
Radii == {4 * Scale}
DefaultCenter == <<0, Scale \div 2, 0>>

\* math.cos / math.sin of i/n of a full turn, for the angles that are
\* multiples of a quarter turn (the other angles have no exact value here).
IsQuarterTurn(i, n) == (4 * i) % n = 0
CosTurn(i, n) == LET q == ((4 * i) \div n) % 4 IN
                 IF q = 0 THEN 1 ELSE IF q = 2 THEN -1 ELSE 0
SinTurn(i, n) == LET q == ((4 * i) \div n) % 4 IN
                 IF q = 1 THEN 1 ELSE IF q = 3 THEN -1 ELSE 0
\* A circle whose first entity sits one step after angle 0.
circle_point_from_one(center_pos, radius, i, n) ==
    <<center_pos[1] + radius * CosTurn(i + 1, n), center_pos[2],
      center_pos[3] + radius * SinTurn(i + 1, n)>>
\* Position of entity i (from 0) of n on the circle; an angle that is not a
\* multiple of a quarter turn is kept symbolic in the first coordinate.
circle_point(center_pos, radius, i, n) ==
    IF IsQuarterTurn(i, n)
    THEN <<center_pos[1] + radius * CosTurn(i, n), center_pos[2],
           center_pos[3] + radius * SinTurn(i, n)>>
    ELSE <<Offset(center_pos, radius, <<i, n>>), center_pos[2], center_pos[3]>>

\* The registry with the position of one entity replaced.
WithPosition(items, name, pos) ==
    [k \in 1..Len(items) |->
        IF items[k].name = name THEN [items[k] EXCEPT !.position = pos] ELSE items[k]]

InitArrange ==
    /\ websocket = 1
    /\ is_connected = TRUE
    /\ game_state = WithEntities(FourEntities)
    /\ grid_size = Scale
    /\ status = [c \in Sockets |-> IF c = 1 THEN "listening" ELSE "none"]
    /\ last_snapshot = WithEntities(FourEntities)
    /\ board_size = 0
    /\ pc = "idle"
    /\ call = [op |-> "scene_connect"]
    /\ wire = <<Frame("get_game_state", EmptyDict)>>
    /\ result = Returned(None)
    /\ connected = TRUE
    /\ entities = FourEntities
    /\ NoShots
    /\ listener_log = Unobserved

\* arrange_in_circle up to its loop: an empty list returns False.
ArrangeStart ==
    \E entity_names \in EntityLists, radius \in Radii,
       center \in Optional({PosB}), animate \in BOOLEAN :
        /\ pc = "idle"
        /\ call' = [op |-> "arrange_in_circle", entity_names |-> entity_names,
                    radius |-> radius, animate |-> animate,
                    center_pos |-> IF IsGiven(center) THEN center[1] ELSE DefaultCenter,
                    i |-> 0]
        /\ wire' = <<>>
        /\ IF entity_names = <<>>
           THEN result' = Returned(FALSE) /\ pc' = "idle"
           ELSE result' = Pending /\ pc' = "arrange_probe"
        /\ UNCHANGED <<client_vars, scene_vars>>
        /\ UNCHANGED <<shot_vars, listener_log>>

\* SceneController.move_entity for entity i, up to the sleep of its
\* collision probe: a name that is not in the registry raises.
ArrangeProbe ==
    LET name == call.entity_names[call.i + 1]
        pos == circle_point(call.center_pos, call.radius, call.i, Len(call.entity_names))
    IN  /\ pc = "arrange_probe"
        /\ IF name \notin KeySet(entities)
           THEN /\ result' = Raised("ValueError")
                /\ pc' = "idle"
                /\ UNCHANGED wire
           ELSE /\ wire' = scene_check_collisions(wire, name, pos).wire
                /\ pc' = "arrange_move"
                /\ UNCHANGED result
        /\ UNCHANGED <<client_vars, call, scene_vars>>
        /\ UNCHANGED <<shot_vars, listener_log>>

\* The rest of move_entity for entity i: the client's move (an error
\* propagates out of arrange_in_circle), then the registry.
ArrangeMove ==
    LET n == Len(call.entity_names)
        name == call.entity_names[call.i + 1]
        pos == circle_point(call.center_pos, call.radius, call.i, n)
        s == send_message(wire, "move_entity",
                          [name |-> name, to |-> pos, animate |-> call.animate])
    IN  /\ pc = "arrange_move"
        /\ wire' = s.wire
        /\ IF s.error # "none"
           THEN /\ result' = Raised(s.error)
                /\ pc' = "idle"
                /\ UNCHANGED <<call, entities>>
           ELSE /\ entities' = WithPosition(entities, name, pos)
                /\ call' = [call EXCEPT !.i = @ + 1]
                /\ IF call.i + 1 = n
                   THEN result' = Returned(TRUE) /\ pc' = "idle"
                   ELSE pc' = "arrange_probe" /\ UNCHANGED result
        /\ UNCHANGED <<client_vars, connected>>
        /\ UNCHANGED <<shot_vars, listener_log>>

\* ------------------------------------------------------------- colours
\* A colour [r, g, b] of floats is the integer triple rgb over the common
\* denominator den.
Color(r, g, b, den) == [rgb |-> <<r, g, b>>, den |-> den]
Red == Color(100, 0, 0, 100)
Blue == Color(0, 0, 100, 100)
\* colors arguments: None, an empty list, one colour, two colours.
Palettes == Optional({<<>>, <<Red>>, <<Red, Blue>>})
\* entity_names arguments; mini_c is in no registry.
ColorLists ==
    { <<>>, <<prop_a>>, <<prop_b, mini_c, prop_a>>, <<cam_main, mini_b, prop_a>> }

\* colorsys.hsv_to_rgb(hn / hd, s / 100, v / 100).
hsv_to_rgb(hn, hd, s, v) ==
    LET i == ((6 * hn) \div hd) % 6
        r == (6 * hn) % hd
        vv == v * 100 * hd
        pp == v * (100 - s) * hd
        qq == v * (100 * hd - s * r)
        tt == v * (100 * hd - s * (hd - r))
        den == 10000 * hd
    IN  IF s = 0 THEN Color(vv, vv, vv, den)
        ELSE IF i = 0 THEN Color(vv, tt, pp, den)
        ELSE IF i = 1 THEN Color(qq, vv, pp, den)
        ELSE IF i = 2 THEN Color(pp, vv, tt, den)
        ELSE IF i = 3 THEN Color(pp, qq, vv, den)
        ELSE IF i = 4 THEN Color(tt, pp, vv, den)
        ELSE Color(vv, pp, qq, den)
\* The rainbow generated for n entities.
rainbow(n) == [k \in 1..n |-> hsv_to_rgb(k - 1, n, 80, 80)]
\* A choice that repeats the last colour instead of wrapping around.
pick_color_clamped(colors, i) ==
    colors[IF i + 1 > Len(colors) THEN Len(colors) ELSE i + 1]
\* colors[i % len(colors)]
pick_color(colors, i) == colors[(i % Len(colors)) + 1]

\* The registry with the colour property of one entity set.
WithColor(items, name, color) ==
    [k \in 1..Len(items) |->
        IF items[k].name = name
        THEN [name |-> name, position |-> items[k].position, color |-> color]
        ELSE items[k]]

\* The loop of colorize_entities from entity i on: update_entity_color
\* raises for a name that is not in the registry; a failed send is caught
\* there (it returns False, the registry keeps the old colour) and the
\* loop goes on.  st is [wire, entities, assigned, error].
RECURSIVE colorize_from(_, _, _, _)
colorize_from(names, colors, i, st) ==
    IF i >= Len(names) THEN st
    ELSE LET name == names[i + 1]
             color == pick_color(colors, i)
             sent == send_message(st.wire, "execute_javascript",
                                  [code |-> [name |-> name, color |-> color]])
         IN  IF name \notin KeySet(st.entities)
             THEN [st EXCEPT !.error = "ValueError"]
             ELSE colorize_from(names, colors, i + 1,
                    [st EXCEPT
                       !.wire = sent.wire,
                       !.assigned = Append(@, [name |-> name, color |-> color]),
                       !.entities = IF sent.error = "none"
                                    THEN WithColor(@, name, color) ELSE @])

\* colorize_entities: no await but the sends, so one step.
Colorize ==
    \E entity_names \in ColorLists, colors \in Palettes :
        LET palette == IF IsGiven(colors) /\ colors[1] # <<>>
                       THEN colors[1] ELSE rainbow(Len(entity_names))
            st == colorize_from(entity_names, palette, 0,
                                [wire |-> <<>>, entities |-> entities,
                                 assigned |-> <<>>, error |-> "none"])
        IN  /\ pc = "idle"
            /\ call' = [op |-> "colorize_entities", entity_names |-> entity_names,
                        colors |-> colors, assigned |-> st.assigned]
            /\ wire' = st.wire
            /\ entities' = st.entities
            /\ result' = IF st.error = "none" THEN Returned(TRUE) ELSE Raised(st.error)
            /\ UNCHANGED <<client_vars, pc, connected>>
            /\ UNCHANGED <<shot_vars, listener_log>>

\* ------------------------------------------------------------- scene clear_scene
\* exclude arguments of SceneController.clear_scene (None is the empty list).
SceneExcludes == {{}, {mini_b}}
\* The registry without one entity.
Without(items, name) == SelectSeq(items, LAMBDA e : e.name # name)

\* The loop of SceneController.clear_scene from the i-th name on.  Each turn
\* is SceneController.delete_entity: ValueError for a name that is not in
\* the registry, then the client's delete_entity (False without a send when
\* the name is not in the cache, an error of the send propagates), then the
\* registry entry is dropped when the client returned True.  Nothing catches
\* an exception here.  st is [wire, entities, attempted, error].
RECURSIVE scene_clear_from(_, _, _)
scene_clear_from(names, i, st) ==
    IF i > Len(names) THEN st
    ELSE LET name == names[i]
             tried == [st EXCEPT !.attempted = Append(@, name)]
             sent == send_message(st.wire, "delete_entity", [name |-> name])
         IN  IF name \notin KeySet(st.entities)
             THEN [tried EXCEPT !.error = "ValueError"]
             ELSE IF ~check_entity_exists(name)
             THEN scene_clear_from(names, i + 1, tried)
             ELSE IF sent.error # "none"
             THEN [tried EXCEPT !.wire = sent.wire, !.error = sent.error]
             ELSE scene_clear_from(names, i + 1,
                    [tried EXCEPT !.wire = sent.wire,
                                  !.entities = Without(@, name)])

\* SceneController.clear_scene: no await but the sends, so one step.
SceneClearScene ==
    \E exclude \in SceneExcludes :
        LET entities_to_delete ==
                SelectSeq(Keys(entities), LAMBDA name : name \notin exclude)
            st == scene_clear_from(entities_to_delete, 1,
                                   [wire |-> <<>>, entities |-> entities,
                                    attempted |-> <<>>, error |-> "none"])
        IN  /\ pc = "idle"
            /\ call' = [op |-> "scene_clear_scene", exclude |-> exclude,
                        entities_to_delete |-> entities_to_delete,
                        attempted |-> st.attempted]
            /\ wire' = st.wire
            /\ entities' = st.entities
            /\ result' = IF st.error = "none" THEN Returned(TRUE) ELSE Raised(st.error)
            /\ UNCHANGED <<client_vars, pc, connected, shot_vars, listener_log>>

\* ------------------------------------------------------------- scene entities
\* int(v) of a float: truncation toward zero (fixed point in, integer out).
trunc(v) == IF v >= 0 THEN v \div Scale ELSE -((-v) \div Scale)
\* A conversion that rounds to the nearest cell instead of truncating.
to_grid_rounded(pos) ==
    GridPos(RoundHalfEven(pos[1], Scale), pos[2], RoundHalfEven(pos[3], Scale))
\* Position.to_grid
to_grid(pos) == GridPos(trunc(pos[1]), pos[2], trunc(pos[3]))

\* self.entities[name] = entity: a new key goes last, an old key keeps its place.
Put(items, name, pos) ==
    IF name \in KeySet(items)
    THEN [k \in 1..Len(items) |-> IF items[k].name = name THEN Ent(name, pos) ELSE items[k]]
    ELSE Append(items, Ent(name, pos))
\* The registry with the rotation of one entity set.
WithRotation(items, name, rot) ==
    [k \in 1..Len(items) |->
        IF items[k].name = name
        THEN [name |-> name, position |-> items[k].position, rotation |-> rot]
        ELSE items[k]]

\* name and position arguments of the scene controller's commands
\* (fixed point: with Scale = 2, <<3, 1, -3>> is (1.5, 0.5, -1.5)).
SceneCreateNames == {prop_b}
CreatePositions == {<<0, Scale \div 2, 0>>, <<3, Scale \div 2, -3>>, <<2 * Scale, 0, Scale>>}
SceneCommandNames == {prop_a, mini_c}

\* create_cube (create_sphere, create_cylinder and create_model differ in
\* the template only): the client's create_entity with the grid position of
\* the given position, then the registry entry with the given position.
SceneCreate ==
    \E name \in SceneCreateNames, position \in CreatePositions :
        LET s == send_message(<<>>, "create_entity",
                              [name |-> name, template |-> "cube",
                               position |-> create_position(Given(to_grid(position)),
                                                            NotGiven)])
        IN  /\ pc = "idle"
            /\ call' = [op |-> "scene_create", name |-> name, position |-> position]
            /\ wire' = s.wire
            /\ IF s.error = "none"
               THEN /\ entities' = Put(entities, name, position)
                    /\ result' = Returned(Ent(name, position))
               ELSE /\ result' = Raised(s.error)
                    /\ UNCHANGED entities
            /\ UNCHANGED <<client_vars, pc, connected, shot_vars, listener_log>>

\* SceneController.move_entity up to the sleep of its collision probe.  A
\* probe whose send raised is swallowed without a sleep, so the client's
\* move follows in the same step.
SceneMoveProbe ==
    \E name \in SceneCommandNames, position \in {PosA} :
        LET probe == send_message(<<>>, "check_collisions",
                                  [name |-> name, position |-> position])
            s == send_message(probe.wire, "move_entity",
                              [name |-> name, to |-> position, animate |-> TRUE])
        IN  /\ pc = "idle"
            /\ call' = [op |-> "scene_move", name |-> name, position |-> position]
            /\ IF name \notin KeySet(entities)
               THEN /\ result' = Raised("ValueError")
                    /\ wire' = <<>>
                    /\ UNCHANGED <<pc, entities>>
               ELSE IF probe.error = "none"
               THEN /\ wire' = probe.wire
                    /\ result' = Pending
                    /\ pc' = "scene_move"
                    /\ UNCHANGED entities
               ELSE /\ wire' = s.wire
                    /\ UNCHANGED pc
                    /\ IF s.error = "none"
                       THEN /\ entities' = WithPosition(entities, name, position)
                            /\ result' = Returned(TRUE)
                       ELSE /\ result' = Raised(s.error)
                            /\ UNCHANGED entities
            /\ UNCHANGED <<client_vars, connected, shot_vars, listener_log>>

\* A move that updates the registry before it knows the outcome.
SceneMoveOptimistic ==
    LET s == send_message(wire, "move_entity",
                          [name |-> call.name, to |-> call.position, animate |-> TRUE])
    IN  /\ pc = "scene_move"
        /\ pc' = "idle"
        /\ wire' = s.wire
        /\ entities' = WithPosition(entities, call.name, call.position)
        /\ result' = IF s.error = "none" THEN Returned(TRUE) ELSE Raised(s.error)
        /\ UNCHANGED <<client_vars, call, connected, shot_vars, listener_log>>
\* The rest of move_entity: the client's move, then the registry.
SceneMove ==
    LET s == send_message(wire, "move_entity",
                          [name |-> call.name, to |-> call.position, animate |-> TRUE])
    IN  /\ pc = "scene_move"
        /\ pc' = "idle"
        /\ wire' = s.wire
        /\ IF s.error = "none"
           THEN /\ entities' = WithPosition(entities, call.name, call.position)
                /\ result' = Returned(TRUE)
           ELSE /\ result' = Raised(s.error)
                /\ UNCHANGED entities
        /\ UNCHANGED <<client_vars, call, connected, shot_vars, listener_log>>

\* SceneController.rotate_entity
SceneRotate ==
    \E name \in SceneCommandNames, rotation \in Rotations :
        LET s == send_message(<<>>, "rotate_entity",
                              [name |-> name, to |-> rotation, animate |-> TRUE])
        IN  /\ pc = "idle"
            /\ call' = [op |-> "scene_rotate", name |-> name, rotation |-> rotation]
            /\ IF name \notin KeySet(entities)
               THEN /\ result' = Raised("ValueError")
                    /\ wire' = <<>>
                    /\ UNCHANGED entities
               ELSE /\ wire' = s.wire
                    /\ IF s.error = "none"
                       THEN /\ entities' = WithRotation(entities, name, rotation)
                            /\ result' = Returned(TRUE)
                       ELSE /\ result' = Raised(s.error)
                            /\ UNCHANGED entities
            /\ UNCHANGED <<client_vars, pc, connected, shot_vars, listener_log>>

\* SceneController.delete_entity: the client returns False, without a
\* send, for a name that is not in its cache.
SceneDelete ==
    \E name \in SceneCommandNames :
        LET s == send_message(<<>>, "delete_entity", [name |-> name])
        IN  /\ pc = "idle"
            /\ call' = [op |-> "scene_delete", name |-> name]
            /\ IF name \notin KeySet(entities)
               THEN /\ result' = Raised("ValueError")
                    /\ wire' = <<>>
                    /\ UNCHANGED entities
               ELSE IF ~check_entity_exists(name)
               THEN /\ result' = Returned(FALSE)
                    /\ wire' = <<>>
                    /\ UNCHANGED entities
               ELSE /\ wire' = s.wire
                    /\ IF s.error = "none"
                       THEN /\ entities' = Without(entities, name)
                            /\ result' = Returned(TRUE)
                       ELSE /\ result' = Raised(s.error)
                            /\ UNCHANGED entities
            /\ UNCHANGED <<client_vars, pc, connected, shot_vars, listener_log>>

\* A connected scene controller with an empty scene whose client has set
\* up a board of some cell size.
InitCreate ==
    /\ websocket = 1
    /\ is_connected = TRUE
    /\ game_state = NoEntities
    /\ grid_size \in CoordGridSizes
    /\ board_size = grid_size
    /\ status = [c \in Sockets |-> IF c = 1 THEN "listening" ELSE "none"]
    /\ last_snapshot = NoEntities
    /\ pc = "idle"
    /\ call = [op |-> "setup_board", size |-> grid_size]
    /\ wire = <<Frame("setup_board",
                      [type |-> "square", size |-> grid_size, width |-> 10, height |-> 10,
                       createTiles |-> TRUE])>>
    /\ result = Returned(TRUE)
    /\ connected = TRUE
    /\ entities = <<>>
    /\ NoShots
    /\ listener_log = Unobserved

\* ------------------------------------------------------------- props
\* str(k) for k >= 0, as characters.
Digits == <<"0", "1", "2", "3", "4", "5", "6", "7", "8", "9">>
RECURSIVE str(_)
str(k) == IF k < 10 THEN <<Digits[k + 1]>> ELSE str(k \div 10) \o <<Digits[(k % 10) + 1]>>

\* A selection that keeps every entity of the cache.
get_entities_by_any_prefix(prefix) == Entities(game_state)
\* get_entities_by_prefix: the entities of the cache whose name starts with prefix.
get_entities_by_prefix(prefix) ==
    SelectSeq(Entities(game_state), LAMBDA e : StartsWith(e.name, prefix))

\* prop_type arguments, and f"prop_{prop_type}_{prop_id}".
cube == <<"c", "u", "b", "e">>
sphere == <<"s", "p", "h", "e", "r", "e">>
PropTypes == {cube, sphere}
prop_name(prop_type, prop_id) == prop_ \o prop_type \o <<"_">> \o str(prop_id)

\* create_prop: the name is built from the cache, then create_entity with
\* the prop type as template; the name is returned.  call.cache is the cache
\* at the time of the call (history).
CreateProp ==
    \E prop_type \in PropTypes, grid_pos \in {GridPos(2, Scale \div 2, -1)} :
        LET prop_id == Len(get_entities_by_prefix(prop_)) + 1
            name == prop_name(prop_type, prop_id)
        IN  /\ pc = "idle"
            /\ SendAndReturn([op |-> "create_prop", prop_type |-> prop_type,
                              grid_pos |-> grid_pos, name |-> name, cache |-> game_state],
                             "create_entity",
                             [name |-> name, template |-> prop_type,
                              position |-> create_position(Given(grid_pos), NotGiven)],
                             name)
            /\ UNCHANGED <<client_vars, scene_vars>>
            /\ UNCHANGED <<shot_vars, listener_log>>

\* Caches of a session in which create_prop made prop_cube_1 and then
\* prop_cube_2, and the server later dropped the first.
PropCaches ==
    { WithEntities(<<Ent(cam_main, PosA)>>),
      WithEntities(<<Ent(cam_main, PosA), Ent(prop_name(cube, 1), PosB)>>),
      WithEntities(<<Ent(cam_main, PosA), Ent(prop_name(cube, 1), PosB),
                     Ent(prop_name(cube, 2), PosA)>>),
      WithEntities(<<Ent(cam_main, PosA), Ent(prop_name(cube, 2), PosA)>>) }
InitProps ==
    /\ websocket = 1
    /\ is_connected = TRUE
    /\ game_state \in PropCaches
    /\ grid_size = Scale
    /\ status = [c \in Sockets |-> IF c = 1 THEN "listening" ELSE "none"]
    /\ last_snapshot = game_state
    /\ board_size = 0
    /\ pc = "idle"
    /\ call = [op |-> "connect"]
    /\ wire = <<>>
    /\ result = Returned(None)
    /\ connected = FALSE
    /\ entities = <<>>
    /\ NoShots
    /\ listener_log = Unobserved

Next ==
    \/ Connect
    \/ Disconnect
    \/ ListenerReceive
    \/ PeerClose
    \/ CreateEntity
    \/ MoveEntity
    \/ RotateEntity
    \/ CheckCollisions
    \/ DeleteEntity
    \/ SetupBoard
    \/ SetCameraAngle
    \/ GetGameStateSend
    \/ GetGameStateReturn
    \/ ClearSceneStart
    \/ ClearSceneCapture
    \/ ClearSceneStep
    \/ ClearSceneReturn
    \/ WorldToGrid

Spec == Init /\ [][Next]_vars

\* The scene controller's connection handling over the channel.
SceneNext ==
    \/ SceneConnect
    \/ SceneSyncReturn
    \/ SceneDisconnect
    \/ Connect
    \/ Disconnect
    \/ ListenerReceive
    \/ PeerClose

SpecScene == Init /\ [][SceneNext]_vars

\* The coordinate conversions for every cell size.
CoordNext ==
    \/ GridRoundTrip
    \/ WorldRoundTrip

SpecCoords == InitCoords /\ [][CoordNext]_vars

\* Props named after the cache.
PropsNext ==
    \/ CreateProp
    \/ ListenerReceive
    \/ PeerClose

SpecProps == InitProps /\ [][PropsNext]_vars

\* setup_board and the conversions, on a client that connects or not.
BoardNext ==
    \/ Connect
    \/ PeerClose
    \/ SetupBoard
    \/ GridRoundTrip

SpecBoard == Init /\ [][BoardNext]_vars

\* The channel with its receive tasks' log observed.
LogNext ==
    \/ Disconnect
    \/ ListenerReceive
    \/ PeerClose
    \/ GetGameStateSend
    \/ GetGameStateReturn

SpecLog == InitLog /\ [][LogNext]_vars

\* The scene controller's registry: the sync and the entity commands.
RegistryNext ==
    \/ SceneConnect
    \/ SceneSyncReturn
    \/ SceneCreate
    \/ SceneMoveProbe
    \/ SceneMove
    \/ SceneRotate
    \/ SceneDelete
    \/ ListenerReceive
    \/ PeerClose

SpecRegistry == Init /\ [][RegistryNext]_vars

\* Entity creation on boards of several cell sizes.
CreateNext ==
    \/ SceneCreate
    \/ ListenerReceive
    \/ PeerClose

SpecCreate == InitCreate /\ [][CreateNext]_vars

\* Clearing the scene, at the client and through the scene controller.
SceneClearNext ==
    \/ SceneConnect
    \/ SceneSyncReturn
    \/ SceneClearScene
    \/ ClearSceneStart
    \/ ClearSceneCapture
    \/ ClearSceneStep
    \/ ClearSceneReturn
    \/ ListenerReceive
    \/ PeerClose

SpecSceneClear == Init /\ [][SceneClearNext]_vars

\* Screenshots: the client, the scene controller and the renderer's writer.
ShotsNext ==
    \/ Connect
    \/ Disconnect
    \/ PeerClose
    \/ TakeScreenshot
    \/ TakeScreenshotReturn
    \/ SceneTakeScreenshot
    \/ SceneTakeScreenshotReturn
    \/ ServerCapture

SpecShots == Init /\ [][ShotsNext]_vars

\* The scene controller's search for a free position.
SafeNext ==
    \/ SceneConnect
    \/ SceneSyncReturn
    \/ SceneDisconnect
    \/ ListenerReceive
    \/ PeerClose
    \/ FindSafeStart
    \/ FindSafeProbe

SpecSafe == Init /\ [][SafeNext]_vars

\* find_safe_position against a renderer that answers its probes.
SpiralNext ==
    \/ FindSafeStart
    \/ FindSafeProbeAnswered
    \/ SceneDisconnect

SpecSpiral == InitArrange /\ [][SpiralNext]_vars

\* Arranging the entities of a synchronised scene.
ArrangeNext ==
    \/ ArrangeStart
    \/ ArrangeProbe
    \/ ArrangeMove
    \/ PeerClose

SpecArrange == InitArrange /\ [][ArrangeNext]_vars

\* Colouring the entities of a synchronised scene.
ColorNext ==
    \/ Colorize
    \/ PeerClose
    \/ SceneDisconnect

SpecColor == InitArrange /\ [][ColorNext]_vars

\* ------------------------------------------------------------- properties
\* A step in which the caller starts the command `op`.
CallStep(op) ==
    /\ pc = "idle"
    /\ caller_vars' # caller_vars
    /\ call'.op = op

CacheNames == KeySet(Entities(game_state))
SocketUsable == is_connected /\ status[websocket] \in OpenStatuses
DeleteFrames(w) == {i \in 1..Len(w) : w[i].action = "delete_entity"}
DeletedNames(w) == {w[i].data.name : i \in DeleteFrames(w)}
NeitherGiven(c) == ~IsGiven(c.grid_pos) /\ ~IsGiven(c.position)

Unexcluded(c) ==
    {c.names[j] : j \in {k \in 1..Len(c.names) :
        ~\E prefix \in c.exclude_prefixes : StartsWith(c.names[k], prefix)}}

\* C2 as stated: when clear_scene has returned, the delete_entity frames it
\* sent name exactly the entities of the captured snapshot that start with no
\* excluded prefix, one frame each.
C2_Original ==
    (pc = "idle" /\ call.op = "clear_scene" /\ result.kind = "returned")
    => /\ DeletedNames(wire) = Unexcluded(call)
       /\ Cardinality(DeleteFrames(wire)) = Cardinality(Unexcluded(call))

C2_Frames ==
    call.op = "clear_scene"
    => /\ DeletedNames(wire) \subseteq Unexcluded(call)
       /\ \A i, j \in DeleteFrames(wire) : wire[i].data.name = wire[j].data.name => i = j

C2_Turn ==
    (pc = "clear_scene_loop" /\ pc' = "clear_scene_loop" /\ call' # call)
    => LET name == call.names[call.idx] IN
       IF /\ ~\E prefix \in call.exclude_prefixes : StartsWith(name, prefix)
          /\ name \in CacheNames
          /\ SocketUsable
       THEN wire' = Append(wire, Frame("delete_entity", [name |-> name]))
       ELSE wire' = wire

\* C2 (amended): clear_scene sends delete_entity only for entities of the
\* captured snapshot whose names start with no excluded prefix, at most one
\* frame each, and in its turn a name gets its frame exactly when it starts
\* with no excluded prefix, is still in the cache and the socket takes the
\* send; a name with an excluded prefix never gets one.
C2_ClearScene == []C2_Frames /\ [][C2_Turn]_vars

\* C2 witness: the cache {cam_main, prop_a, mini_b} cleared with ['cam_']:
\* clear_scene returned having sent deletes for exactly prop_a and mini_b.
C2_Witness ==
    /\ pc = "idle"
    /\ call.op = "clear_scene"
    /\ result.kind = "returned"
    /\ call.exclude_prefixes = {cam_}
    /\ call.names = <<cam_main, prop_a, mini_b>>
    /\ DeletedNames(wire) = {prop_a, mini_b}

\* C3: move_entity with neither grid_pos nor position raises ValueError,
\* writes no frame and changes nothing of the client, connected or not.
C3_MoveNeedsTarget ==
    [][(CallStep("move_entity") /\ NeitherGiven(call'))
        => /\ result'.kind = "raised"
           /\ result'.value = "ValueError"
           /\ wire' = <<>>
           /\ UNCHANGED <<client_vars, scene_vars>>]_vars

\* C3 witness: the ValueError on a client that is not connected (the usage
\* error came, not the not-connected error).
C3_Witness ==
    /\ call.op = "move_entity"
    /\ NeitherGiven(call)
    /\ result.kind = "raised"
    /\ result.value = "ValueError"
    /\ ~is_connected

\* C4 as stated, in the form that needs least to refute: create_entity with
\* neither a grid position nor a world position fails and sends no frame.
C4_Original ==
    (call.op = "create_entity" /\ NeitherGiven(call))
    => /\ result.kind = "raised"
       /\ wire = <<>>

\* C4 (amended): create_entity with neither position raises no input error:
\* on a usable socket it sends one create_entity frame with position
\* [0, 0, 0] and returns True; otherwise it raises the error of the send and
\* writes nothing.
C4_CreateDefaultsToOrigin ==
    [][(CallStep("create_entity") /\ NeitherGiven(call'))
        => IF SocketUsable
           THEN /\ result'.kind = "returned"
                /\ result'.value = TRUE
                /\ Len(wire') = 1
                /\ wire'[1].action = "create_entity"
                /\ wire'[1].data.name = call'.name
                /\ wire'[1].data.position = <<0, 0, 0>>
           ELSE /\ result'.kind = "raised"
                /\ result'.value \in {"RuntimeError", "ConnectionClosed"}
                /\ wire' = <<>>]_vars

\* C4 witness: the create_entity frame with the origin was sent.
C4_Witness ==
    /\ call.op = "create_entity"
    /\ NeitherGiven(call)
    /\ result.kind = "returned"
    /\ Len(wire) = 1
    /\ wire[1].data.position = <<0, 0, 0>>

\* Whether the command c, started with the cache gs, gets to _send_message.
ReachesSend(c, gs) ==
    \/ c.op \in {"create_entity", "rotate_entity", "setup_board", "get_game_state",
                 "check_collisions", "take_screenshot", "set_camera_angle", "clear_scene"}
    \/ c.op = "move_entity" /\ ~NeitherGiven(c)
    \/ c.op = "delete_entity" /\ c.name \in KeySet(Entities(gs))

C6_CacheIsLastSnapshot == game_state = last_snapshot

\* C6 witness: a snapshot naming one entity replaced a cache of three (the
\* three are the names a clear_scene captured before), after commands were
\* sent.
C6_Witness ==
    /\ game_state = WithEntities(<<Ent(cam_main, PosA)>>)
    /\ call.op = "clear_scene"
    /\ Len(call.names) = 3
    /\ DeletedNames(wire) # {}

\* C7 as stated: when the peer closes a socket whose receive task is
\* iterating (the socket closes in a step that is not a call of the
\* caller), the task leaves is_connected False.
C7_PeerCloseClearsFlag ==
    [][\A c \in Sockets :
         (status[c] = "listening" /\ status'[c] = "closed" /\ UNCHANGED caller_vars)
         => ~is_connected']_vars

ListeningSockets == {c \in Sockets : status[c] = "listening"}

\* C8 as stated: at no time are two receive tasks alive on open sockets,
\* both able to write the client's cache.
C8_OneListener == Cardinality(ListeningSockets) <= 1

\* A step in which connect() or SceneController.connect() raised.
ConnectRaised ==
    /\ pc = "idle"
    /\ caller_vars' # caller_vars
    /\ call'.op \in {"connect", "scene_connect"}
    /\ result'.kind = "raised"

\* C9: a connect() whose socket cannot be established raises and assigns
\* nothing: no socket is stored, no receive task is started, is_connected is
\* not set; SceneController.connect() raises too and does not set connected
\* (a flag that was False stays False).  A connect() that does not raise has
\* established a socket with its receive task.
C9_FailedConnect ==
    [][/\ ConnectRaised
          => /\ UNCHANGED <<websocket, status, is_connected, connected, entities>>
             /\ pc' = "idle"
       /\ (pc = "idle" /\ caller_vars' # caller_vars
           /\ call'.op \in {"connect", "scene_connect"} /\ result'.kind # "raised")
          => /\ websocket' # websocket
             /\ status[websocket'] = "none"
             /\ status'[websocket'] = "listening"
             /\ is_connected']_vars

\* C9 witness: SceneController.connect() raised on a controller that never
\* connected; both flags are down and no socket exists.
C9_Witness ==
    /\ call.op = "scene_connect"
    /\ result.kind = "raised"
    /\ ~connected
    /\ ~is_connected
    /\ websocket = 0

\* The grid size in force: that of the last setup_board call, 1.0 before any.
BoardSize == IF board_size = 0 THEN Scale ELSE board_size

\* C10: grid_size is the size of the last setup_board call (1.0 before the
\* first); a create_entity / move_entity given a grid position (x, y, z)
\* sends (x*s, y, z*s) for that size s, and world_to_grid returns the cell
\* nearest to position / s.
C10_GridSize ==
    /\ grid_size = BoardSize
    /\ (call.op \in {"create_entity", "move_entity"} /\ IsGiven(call.grid_pos)
        /\ wire # <<>>)
       => LET g == call.grid_pos[1]
              sent == IF call.op = "create_entity" THEN wire[1].data.position
                      ELSE wire[1].data.to
          IN  sent = <<g.x * BoardSize, g.y, g.z * BoardSize>>
    /\ (call.op = "world_to_grid")
       => LET w == call.position
              g == result.value
              Near(cell, coord) == /\ 2 * (cell * BoardSize - coord) <= BoardSize
                                   /\ 2 * (coord - cell * BoardSize) <= BoardSize
          IN  /\ Near(g.x, w[1])
              /\ Near(g.z, w[3])
              /\ g.y = w[2]

\* C10 witness: after setup_board(size = 2.0) a create_entity with a grid
\* position was sent.
C10_Witness ==
    /\ board_size = 2 * Scale
    /\ call.op = "create_entity"
    /\ IsGiven(call.grid_pos)
    /\ wire # <<>>
\* C11: converting an integer grid position to world coordinates and back,
\* with any positive grid size, gives the same x and z, and the same height y.
C11_GridRoundTrip ==
    (call.op = "grid_round_trip" /\ result.kind = "returned") =>
        /\ result.value.x = call.grid_pos.x
        /\ result.value.z = call.grid_pos.z
        /\ result.value.y = call.grid_pos.y
C11_Witness ==
    /\ call.op = "grid_round_trip"
    /\ result.kind = "returned"
    /\ grid_size \notin {1, Scale}
    /\ call.grid_pos.x < 0
    /\ call.grid_pos.z > 0
    /\ call.grid_pos.x # call.grid_pos.z
    /\ call.world # <<call.grid_pos.x, call.grid_pos.y, call.grid_pos.z>>

Abs(v) == IF v < 0 THEN -v ELSE v

EmptyScene == KeySet(Entities(game_state)) = {} /\ entities = <<>>
FindSafeDone == call.op = "find_safe_position" /\ pc = "idle"
ProbeFrames(w) ==
    {i \in 1..Len(w) : w[i].action = "check_collisions"}
C13_SafeOnEmptyScene ==
    (FindSafeDone /\ EmptyScene) =>
        /\ result = Returned(Given(Offset(call.preferred.at, 0, 0)))
        /\ call.probes = 1
        /\ Cardinality(ProbeFrames(wire)) <= 1
        /\ \A i \in ProbeFrames(wire) :
               wire[i].data.position = Offset(call.preferred.at, 0, 0)
\* The probe went out on an open socket and came back safe.
C13_Witness ==
    /\ FindSafeDone
    /\ EmptyScene
    /\ connected
    /\ call.probes = 1
    /\ Len(wire) = 1
    /\ wire[1].data.position = Offset(PosB, 0, 0)
    /\ result = Returned(Given(Offset(PosB, 0, 0)))

\* C14: arrange_in_circle over n registered names moves the entities in
\* list order, entity i to (cx + r*cos(2*pi*i/n), cy, cz + r*sin(2*pi*i/n)):
\* the moves sent are always the first moves of that list, and all of them
\* once the call has returned True; for four entities, radius 4 and center
\* (0, 0.5, 0) the targets are (4,0.5,0), (0,0.5,4), (-4,0.5,0), (0,0.5,-4).
MoveFrames(w) == SelectSeq(w, LAMBDA f : f.action = "move_entity")
AllRegistered(names) == \A k \in 1..Len(names) : names[k] \in KeySet(entities)
Turn(i, n) == <<CosTurn(i, n), SinTurn(i, n)>>
ExpectedMove(c, k) ==
    LET n == Len(c.entity_names)
        i == k - 1
    IN  [name |-> c.entity_names[k],
         to |-> IF IsQuarterTurn(i, n)
                THEN <<c.center_pos[1] + c.radius * Turn(i, n)[1], c.center_pos[2],
                       c.center_pos[3] + c.radius * Turn(i, n)[2]>>
                ELSE <<Offset(c.center_pos, c.radius, <<i, n>>), c.center_pos[2],
                       c.center_pos[3]>>]
ArrangeReturnedTrue ==
    /\ call.op = "arrange_in_circle"
    /\ pc = "idle"
    /\ result.kind = "returned"
    /\ call.entity_names # <<>>
FourAroundOrigin ==
    /\ Len(call.entity_names) = 4
    /\ call.radius = 4 * Scale
    /\ call.center_pos = <<0, Scale \div 2, 0>>
C14_ArrangeInCircle ==
    (call.op = "arrange_in_circle" /\ AllRegistered(call.entity_names)) =>
        LET moves == MoveFrames(wire) IN
        /\ Len(moves) <= Len(call.entity_names)
        /\ \A k \in 1..Len(moves) :
              /\ moves[k].data.name = ExpectedMove(call, k).name
              /\ moves[k].data.to = ExpectedMove(call, k).to
        /\ ArrangeReturnedTrue => Len(moves) = Len(call.entity_names)
        /\ (ArrangeReturnedTrue /\ FourAroundOrigin) =>
              [k \in 1..4 |-> moves[k].data.to] =
                  << <<4 * Scale, Scale \div 2, 0>>, <<0, Scale \div 2, 4 * Scale>>,
                     <<-4 * Scale, Scale \div 2, 0>>, <<0, Scale \div 2, -4 * Scale>> >>
C14_Witness ==
    /\ ArrangeReturnedTrue
    /\ FourAroundOrigin
    /\ AllRegistered(call.entity_names)
    /\ Len(MoveFrames(wire)) = 4
    /\ entities[1].position = <<0, Scale \div 2, -4 * Scale>>

\* C15: colorize_entities gives entity i (in list order) the colour
\* colors[i mod len(colors)]; with no palette the colour of entity i of n has
\* hue i/n of a full turn, saturation 0.8 and value 0.8.
Max3(t) == IF t[1] >= t[2] /\ t[1] >= t[3] THEN t[1] ELSE IF t[2] >= t[3] THEN t[2] ELSE t[3]
Min3(t) == IF t[1] <= t[2] /\ t[1] <= t[3] THEN t[1] ELSE IF t[2] <= t[3] THEN t[2] ELSE t[3]
\* Six times the hue of a colour (in turns), times its chroma.
Hue6(t) ==
    LET d == Max3(t) - Min3(t) IN
    IF t[1] = Max3(t) THEN t[2] - t[3]
    ELSE IF t[2] = Max3(t) THEN 2 * d + (t[3] - t[1])
    ELSE 4 * d + (t[1] - t[2])
\* The colour c has hue i/n, saturation 0.8, value 0.8.
IsRainbow(c, i, n) ==
    LET t == c.rgb
        d == Max3(t) - Min3(t)
    IN  /\ 100 * Max3(t) = 80 * c.den
        /\ 100 * d = 80 * Max3(t)
        /\ (Hue6(t) * n - 6 * i * d) % (6 * d * n) = 0
NoPalette(c) == ~IsGiven(c.colors) \/ c.colors[1] = <<>>
C15_Colorize ==
    call.op = "colorize_entities" =>
        LET n == Len(call.entity_names) IN
        /\ Len(call.assigned) <= n
        /\ (AllRegistered(call.entity_names) /\ pc = "idle") =>
              Len(call.assigned) = n /\ result.kind = "returned"
        /\ \A k \in 1..Len(call.assigned) :
              /\ call.assigned[k].name = call.entity_names[k]
              /\ IF NoPalette(call)
                 THEN IsRainbow(call.assigned[k].color, k - 1, n)
                 ELSE call.assigned[k].color =
                        call.colors[1][((k - 1) % Len(call.colors[1])) + 1]
\* Three entities, no palette: hues 0, 120 and 240 degrees.
C15_Witness ==
    /\ call.op = "colorize_entities"
    /\ NoPalette(call)
    /\ Len(call.assigned) = 3
    /\ Len(wire) = 3
    /\ \A k \in 1..3 :
          LET t == call.assigned[k].color.rgb IN
          Hue6(t) * 360 = 6 * (Max3(t) - Min3(t)) * 120 * (k - 1)

\* C16 as stated: once a take_screenshot call has completed and at least two
\* calls were made, both files exist and 'previous' holds the capture of the
\* call before the last one (read for calls whose requests all reached the
\* renderer).
ShotDone ==
    /\ pc = "idle"
    /\ call.op \in {"take_screenshot", "scene_take_screenshot"}
ReportsSuccess ==
    /\ pc = "idle"
    /\ result.kind = "returned"
    /\ \/ call.op = "take_screenshot" /\ result.value # None
       \/ call.op = "scene_take_screenshot" /\ result.value
C17_SuccessMeansFile == ReportsSuccess => files.latest # 0

\* C18: the 'collisions' of a check_collisions result are computed from the
\* cache: they are not empty when the probed position is the position of
\* another entity of the cache.
Overlapping(name, position, gs) ==
    {i \in 1..Len(Entities(gs)) :
        Entities(gs)[i].name # name /\ Entities(gs)[i].position = position}
C18_CollisionsFromCache ==
    [][(CallStep("check_collisions") /\ result'.kind = "returned"
        /\ Overlapping(call'.name, call'.position, game_state) # {})
       => result'.value.collisions # <<>>]_vars

\* C19: clear_scene, at the client and in the scene controller, survives an
\* exception of one delete: once its loop has started it attempts a delete
\* for every entity it set out to delete, and it completes.
C19_BatchSurvives ==
    /\ (call.op = "clear_scene" /\ pc = "idle" /\ call.idx >= 1) =>
          /\ result.kind = "returned"
          /\ call.idx = Len(call.names) + 1
    /\ call.op = "scene_clear_scene" =>
          /\ result.kind = "returned"
          /\ call.attempted = call.entities_to_delete

\* C20: get_game_state sends one get_game_state request, pauses, and
\* returns the cache as it stands then, which is the payload of the last
\* snapshot handled so far; during the pause the cache changes only when the
\* listener handles a snapshot, so without one the pre-call cache is returned.
GetGameStatePaused == pc = "get_game_state_sleep" /\ call.op = "get_game_state"
C20_GetGameState ==
    [][/\ (pc = "idle" /\ pc' = "get_game_state_sleep") =>
            /\ wire' = <<Frame("get_game_state", EmptyDict)>>
            /\ call'.before = game_state
       /\ (GetGameStatePaused /\ pc' = "idle") =>
            /\ result' = Returned(game_state)
            /\ game_state = last_snapshot
            /\ wire' = <<Frame("get_game_state", EmptyDict)>>
            /\ UNCHANGED client_vars
       /\ (GetGameStatePaused /\ game_state' # game_state) =>
            /\ game_state' = last_snapshot'
            /\ UNCHANGED <<caller_vars, wire>>
       /\ (GetGameStatePaused /\ pc' = "idle" /\ game_state = call.before) =>
            result' = Returned(call.before)]_vars
\* The call returned the stale pre-call cache (some entities) while the
\* socket was open and the request had been written.
C20_Witness ==
    /\ call.op = "get_game_state"
    /\ pc = "idle"
    /\ result.kind = "returned"
    /\ Len(wire) = 1
    /\ game_state = call.before
    /\ KeySet(Entities(call.before)) # {}

\* C21: the sync of connect() leaves the registry with the names of the
\* cache as it stands then; afterwards the registry changes only in the
\* step in which a scene-level create / move / rotate / delete got success
\* from the client, and a command that raised or returned False left it alone.
SceneOps == {"scene_create", "scene_move", "scene_rotate", "scene_delete"}
SceneOpEnds == pc' = "idle" /\ caller_vars' # caller_vars /\ call'.op \in SceneOps
SceneOpSucceeded ==
    /\ SceneOpEnds
    /\ result'.kind = "returned"
    /\ call'.op # "scene_create" => result'.value = TRUE
C21_RegistryFollowsSuccess ==
    [][/\ (pc = "scene_sync_sleep" /\ pc' = "idle") =>
            KeySet(entities') = KeySet(Entities(game_state))
       /\ (entities' # entities) =>
            \/ pc = "scene_sync_sleep" /\ pc' = "idle"
            \/ SceneOpSucceeded
       /\ (SceneOpEnds /\ ~SceneOpSucceeded) => entities' = entities]_vars
\* A delete that the client refused (the name had left the cache) kept the
\* registry entry.
C21_Witness ==
    /\ call.op = "scene_delete"
    /\ result.kind = "returned"
    /\ result.value = FALSE
    /\ call.name \in KeySet(entities)
    /\ prop_b \in KeySet(entities)

\* C30 (as stated): after a successful scene-level create the registry holds
\* the given position, the frame carries (trunc(x) * grid_size, y,
\* trunc(z) * grid_size), and the two are equal only when x and z are whole
\* numbers and grid_size is 1.
Whole(v) == v % Scale = 0
\* int(v / Scale), written out: the whole number nearest to zero from v.
TruncOf(v) ==
    CHOOSE k \in (-(MaxCoord + 2 * Scale))..(MaxCoord + 2 * Scale) :
        /\ Abs(k) * Scale <= Abs(v)
        /\ Abs(v) < (Abs(k) + 1) * Scale
        /\ (v >= 0) => (k >= 0)
        /\ (v <= 0) => (k <= 0)
SceneCreated ==
    /\ call.op = "scene_create"
    /\ result.kind = "returned"
Recorded ==
    Position(entities[CHOOSE k \in 1..Len(entities) : entities[k].name = call.name].position)
Sent == Position(wire[Len(wire)].data.position)
SentAsConverted ==
    /\ Recorded = Position(call.position)
    /\ Len(wire) = 1
    /\ wire[1].action = "create_entity"
    /\ wire[1].data.name = call.name
    /\ Sent = [x |-> TruncOf(call.position[1]) * grid_size,
               y |-> call.position[2],
               z |-> TruncOf(call.position[3]) * grid_size]
C30_Original ==
    SceneCreated =>
        /\ SentAsConverted
        /\ (Sent = Recorded) =>
               (Whole(call.position[1]) /\ Whole(call.position[3]) /\ grid_size = Scale)
\* C30 (amended): the registry holds the given position, the frame carries
\* (trunc(x) * grid_size, y, trunc(z) * grid_size); the two are equal for
\* whole x and z with grid_size 1, and differ whenever x or z has a
\* fractional part and grid_size is 1.
C30_RecordedAndSent ==
    SceneCreated =>
        /\ SentAsConverted
        /\ (Whole(call.position[1]) /\ Whole(call.position[3]) /\ grid_size = Scale)
               => (Sent = Recorded)
        /\ (grid_size = Scale /\ ~(Whole(call.position[1]) /\ Whole(call.position[3])))
               => (Sent # Recorded)
\* A create at (1.5, 0.5, -1.5) on unit cells: sent and recorded differ.
C30_Witness ==
    /\ SceneCreated
    /\ grid_size = Scale
    /\ ~Whole(call.position[1])
    /\ call.position[3] < 0
    /\ Sent # Recorded

\* C22: when SceneController.clear_scene(exclude) returns, a delete_entity
\* message has been sent for every registry entity not named in exclude,
\* and the registry holds exactly the excluded names it held before.
C22_ClearsAllButExcluded ==
    (call.op = "scene_clear_scene" /\ result.kind = "returned") =>
        /\ \A k \in 1..Len(call.entities_to_delete) :
              call.entities_to_delete[k] \in DeletedNames(wire)
        /\ KeySet(entities) \subseteq call.exclude

\* C23: the cache holds no entities when disconnect() returns, and none
\* right after a later connect() has established a connection (before any
\* snapshot of the new session is handled).
C23_CacheClearedBetweenSessions ==
    [][/\ (CallStep("disconnect") /\ websocket # 0) => Entities(game_state') = <<>>
       /\ (CallStep("connect") /\ result'.kind = "returned") => Entities(game_state') = <<>>]_vars

\* C24: find_safe_position probes the preferred position, then the radii
\* 0.5, 1.0, 1.5, 2.0 within search_radius in increasing order, each at the
\* angles 0, 30, ..., 330 in increasing order; it returns the first probed
\* position that is free and on the table, None exactly when every probe of
\* the budget was unsafe, and never makes more than 49 probes.
ProbeBudget == 1 + 12 * Cardinality({r \in 1..4 : r <= call.search_radius})
ProbeAt(k) ==
    IF k = 1 THEN Offset(call.preferred.at, 0, 0)
    ELSE Offset(call.preferred.at, ((k - 2) \div 12) + 1, 30 * ((k - 2) % 12))
Free(answer) == answer.collisions = <<>> /\ answer.onTable
C24_SpiralSearch ==
    (call.op = "find_safe_position") =>
        LET n == Len(call.probed) IN
        /\ n <= ProbeBudget
        /\ n <= 49
        /\ call.probes = n
        /\ \A k \in 1..n : call.probed[k].target = ProbeAt(k)
        /\ \A k \in 1..(n - 1) : ~Free(call.probed[k].answer)
        /\ pc # "idle" => n < ProbeBudget
        /\ pc = "idle" =>
              /\ n >= 1
              /\ IF Free(call.probed[n].answer)
                 THEN result = Returned(Given(ProbeAt(n)))
                 ELSE n = ProbeBudget /\ result = Returned(NotGiven)
\* The first free position was the one at radius 0.5 and 330 degrees, after
\* an occupied preferred position and eleven probes off the table.
C24_Witness ==
    /\ FindSafeDone
    /\ Len(call.probed) = 13
    /\ result = Returned(Given(Offset(call.preferred.at, 1, 330)))
    /\ call.probed[1].answer.collisions # <<>>
    /\ call.probed[3].answer.onTable = FALSE
    /\ Len(wire) = 13

\* C25 (as stated): an inbound error-typed message is only logged: no caller
\* sees anything, game_state and is_connected stay as they are, and the
\* receive task goes on listening.
LogStep == Len(listener_log'.records) = Len(listener_log.records) + 1
NewRecord == listener_log'.records[Len(listener_log'.records)]
ErrorHandled == LogStep /\ MsgType(NewRecord.frame) = "error"
OnlyLogged ==
    /\ game_state' = game_state
    /\ is_connected' = is_connected
    /\ caller_vars' = caller_vars
    /\ status' = status
    /\ status'[NewRecord.socket] = "listening"
C25_Original == [][ErrorHandled => OnlyLogged]_vars
\* C25 (amended): an inbound error-typed message that carries 'message' is
\* only logged (as a server error): no caller sees anything, game_state and
\* is_connected stay as they are, and the receive task goes on listening.
C25_ErrorOnlyLogged ==
    [][(ErrorHandled /\ "message" \in DOMAIN NewRecord.frame) =>
            (OnlyLogged /\ NewRecord.text = "Server error")]_vars
\* A snapshot was written to the cache after the error message was logged,
\* by the one socket there has been.
C25_Witness ==
    /\ Len(listener_log.records) = 1
    /\ listener_log.records[1].text = "Server error"
    /\ listener_log.records[1].socket = 1
    /\ listener_log.records[1].cache_empty
    /\ status = [c \in Sockets |-> IF c = 1 THEN "listening" ELSE "none"]
    /\ Entities(game_state) # <<>>

\* C26: a frame that is not JSON, a snapshot without 'data' or an error
\* without 'message' ends the receive task (and nothing else does so while
\* the socket is open): is_connected and the cache stay as they are, the
\* socket stays open, a send on it still succeeds, and the cache is from then
\* on written only by another socket's receive task.
Malformed(frame) ==
    \/ "raw" \in DOMAIN frame
    \/ /\ "type" \in DOMAIN frame
       /\ \/ frame.type \in {"game_state", "game_state_update"} /\ "data" \notin DOMAIN frame
          \/ frame.type = "error" /\ "message" \notin DOMAIN frame
C26_ListenerDiesSilently ==
    [][/\ LogStep =>
            (Malformed(NewRecord.frame) <=> NewRecord.text = "Error listening for messages")
       /\ (LogStep /\ Malformed(NewRecord.frame)) =>
            /\ status[NewRecord.socket] = "listening"
            /\ status'[NewRecord.socket] = "deaf"
            /\ is_connected' = is_connected
            /\ game_state' = game_state
            /\ caller_vars' = caller_vars
       /\ \A c \in Sockets : status[c] = "deaf" => status'[c] \in {"deaf", "closed"}
       /\ (game_state' # game_state) =>
            \E c \in Sockets : status[c] = "listening" /\ status'[c] = "listening"
       /\ (CallStep("get_game_state") /\ is_connected /\ websocket # 0
             /\ status[websocket] = "deaf") =>
            /\ result'.kind = "pending"
            /\ wire' = <<Frame("get_game_state", EmptyDict)>>]_vars
\* The receive task died on a snapshot without 'data'; the flag is still up,
\* and a get_game_state was sent and returned the cache it started with.
C26_Witness ==
    /\ Len(listener_log.records) = 1
    /\ listener_log.records[1].frame = [type |-> "game_state"]
    /\ listener_log.records[1].socket = websocket
    /\ status[websocket] = "deaf"
    /\ is_connected
    /\ call.op = "get_game_state"
    /\ ~listener_log.records[1].cache_empty
    /\ Len(wire) = 1
    /\ result = Returned(call.before)
    /\ Entities(call.before) # <<>>

\* C27: a name of the list captured at the start of clear_scene's loop that
\* is not in the cache when its turn comes gets no delete_entity message and
\* is counted as deleted all the same; and once the initial get_game_state
\* was sent, clear_scene can only return True, however many deletes went out.
ClearSceneRunning == call.op = "clear_scene" /\ Len(wire) >= 1
SetupBoardRaised == call.op = "setup_board" /\ result.kind = "raised"
C28_FailedSetupBoardSticks ==
    [][/\ (CallStep("setup_board") /\ result'.kind = "raised") =>
            /\ grid_size' = call'.size
            /\ wire' = <<>>
       /\ (CallStep("setup_board") /\ ~is_connected) => result' = Raised("RuntimeError")
       /\ (SetupBoardRaised /\ CallStep("grid_round_trip")) =>
            call'.world = <<call'.grid_pos.x * call.size, call'.grid_pos.y,
                            call'.grid_pos.z * call.size>>]_vars
\* A conversion on a client that never connected, after setup_board(2.0):
\* cells are two units wide.
C28_Witness ==
    /\ websocket = 0
    /\ call.op = "grid_round_trip"
    /\ board_size = 2 * Scale
    /\ call.grid_pos.x = 1
    /\ call.world[1] = 2 * Scale

\* C29: create_prop names the entity prop_<type>_<k>, k being one more than
\* the number of entities in the cache whose name starts with prop_, and
\* sends a create_entity with that name; a second call of the same type on
\* the same cache sends the same name again.  (That the name may be one the
\* cache still holds is what C29_Witness reaches.)
PropCount(gs) ==
    Cardinality({i \in 1..Len(Entities(gs)) :
                    /\ Len(Entities(gs)[i].name) >= 5
                    /\ SubSeq(Entities(gs)[i].name, 1, 5) = <<"p", "r", "o", "p", "_">>})
C29_PropNameFromCount ==
    [][CallStep("create_prop") =>
          /\ call'.name = <<"p", "r", "o", "p", "_">> \o call'.prop_type \o <<"_">>
                          \o str(PropCount(game_state) + 1)
          /\ result'.kind = "returned" =>
                /\ result'.value = call'.name
                /\ Len(wire') = 1
                /\ wire'[1].action = "create_entity"
                /\ wire'[1].data.name = call'.name
          /\ (call.op = "create_prop" /\ call.prop_type = call'.prop_type
                /\ PropCount(call.cache) = PropCount(game_state)) =>
                call'.name = call.name]_vars
\* create_prop("cube") on a cache that holds prop_cube_2 but no longer
\* prop_cube_1 sent a create_entity named prop_cube_2.
C29_Witness ==
    /\ call.op = "create_prop"
    /\ result.kind = "returned"
    /\ call.name \in KeySet(Entities(game_state))
    /\ call.cache = game_state
    /\ wire[1].data.name = <<"p", "r", "o", "p", "_", "c", "u", "b", "e", "_", "2">>

====
